---- MODULE Spec2Model ----
(***************************************************************************)
(* The virtual filesystem of windows9x (lib/filesystem/filesystem.ts), the *)
(* default filesystem built from it, and the jotai atoms that publish it.  *)
(*                                                                         *)
(* A path is a JavaScript string, modelled as the sequence of its pieces:  *)
(* the piece "/" is the separator, every other piece is a run of           *)
(* characters without a slash.  A name is a non-empty sequence of such     *)
(* pieces.  A folder's `items` object is modelled as the sequence of its   *)
(* own properties, each a key with its value, in own-property order (the   *)
(* order Object.values walks).                                             *)
(***************************************************************************)
EXTENDS Integers, Sequences, FiniteSets, TLC

VARIABLES vfs, pre, recv, call, ret, store, persisted, wrote, delivered,
          windowsList, windowStates, runForms, focusedWindow, drags,
          listeners, toIframe, toHost, saveClicks,
          currId, promises, requests, fetching, responses, calls, reloads,
          keyWriters,
          routeAt, programStream, consumed, programResult, startedSending,
          sentIndex, body

engineVars == <<vfs, pre, recv, call, ret>>
storeVars == <<store, persisted, wrote>>
windowVars == <<windowsList, windowStates, runForms, focusedWindow, drags>>
saveVars == <<listeners, toIframe, toHost, saveClicks>>
apiVars == <<currId, promises, requests, fetching, responses, calls, reloads,
          keyWriters>>
deskVars == <<delivered, windowVars, saveVars, apiVars>>
routeVars == <<routeAt, programStream, consumed, programResult, startedSending,
              sentIndex, body>>
vars == <<vfs, pre, recv, call, ret, store, persisted, wrote, delivered,
          windowsList, windowStates, runForms, focusedWindow, drags,
          listeners, toIframe, toHost, saveClicks,
          currId, promises, requests, fetching, responses, calls, reloads,
          keyWriters,
          routeAt, programStream, consumed, programResult, startedSending,
          sentIndex, body>>

----------------------------------------------------------------------------
(* Bounds of the model *)

MaxPathLen == 3
MaxDepth == 3
MaxNodes == 2
MaxWrites == 3
MaxWindows == 5
MaxClicks == 2
MaxCalls == 2
MaxReloads == 1
MaxDrags == 1
MaxChunks == 3

----------------------------------------------------------------------------
(* Strings *)

Slash == "/"
Digits == {"1", "2"}
DigitValue(d) == IF d = "1" THEN 1 ELSE 2

\* Property names every plain object inherits from Object.prototype.
ProtoNames == {<<"constructor">>}

\* path.split("/"): the pieces between separators, empty pieces included.
RECURSIVE SplitFrom(_, _)
SplitFrom(path, cur) ==
  IF path = <<>> THEN <<cur>>
  ELSE IF Head(path) = Slash
       THEN <<cur>> \o SplitFrom(Tail(path), <<>>)
       ELSE SplitFrom(Tail(path), Append(cur, Head(path)))

Split(path) == SplitFrom(path, <<>>)

\* .filter(Boolean) on an array of strings: the empty string is falsy.
FilterBoolean(segs) == SelectSeq(segs, LAMBDA s : s # <<>>)

PathParts(path) == FilterBoolean(Split(path))

\* parts.join("/")
RECURSIVE Join(_)
Join(parts) ==
  IF parts = <<>> THEN <<>>
  ELSE IF Len(parts) = 1 THEN parts[1]
       ELSE parts[1] \o <<Slash>> \o Join(Tail(parts))

\* parts.pop(): the last element (undefined on an empty array) and the rest.
PopName(parts) == IF parts = <<>> THEN <<>> ELSE parts[Len(parts)]
PopRest(parts) == IF parts = <<>> THEN <<>> ELSE SubSeq(parts, 1, Len(parts) - 1)

----------------------------------------------------------------------------
(* Property keys of a plain object *)

\* A canonical array index ("1", "12"; the model has no digit 0): such keys
\* come first, in ascending numeric order, in an object's own-property order.
IsArrayIndex(name) == name # <<>> /\ \A i \in 1..Len(name) : name[i] \in Digits

RECURSIVE ArrayIndex(_)
ArrayIndex(name) ==
  IF name = <<>> THEN 0
  ELSE 10 * ArrayIndex(SubSeq(name, 1, Len(name) - 1)) + DigitValue(name[Len(name)])

\* k1 is enumerated before a newly added key k2.
KeyBefore(k1, k2) ==
  IF IsArrayIndex(k2)
  THEN IsArrayIndex(k1) /\ ArrayIndex(k1) < ArrayIndex(k2)
  ELSE TRUE

HasOwn(items, name) == \E i \in 1..Len(items) : items[i].key = name

OwnIndex(items, name) == CHOOSE i \in 1..Len(items) : items[i].key = name

\* What items[name] evaluates to: the own property, else the inherited one,
\* else undefined.
Undefined == [type |-> "undefined"]
Inherited(name) == [type |-> "builtin", name |-> name]

Lookup(items, name) ==
  IF HasOwn(items, name) THEN items[OwnIndex(items, name)].value
  ELSE IF name \in ProtoNames THEN Inherited(name)
  ELSE Undefined

Truthy(v) == v.type # "undefined"

\* items[name] = item
SetKey(items, name, item) ==
  IF HasOwn(items, name)
  THEN [items EXCEPT ![OwnIndex(items, name)].value = item]
  ELSE LET before == SelectSeq(items, LAMBDA it : KeyBefore(it.key, name))
           after == SelectSeq(items, LAMBDA it : ~KeyBefore(it.key, name))
       IN before \o <<[key |-> name, value |-> item]>> \o after

\* delete items[name]
DeleteKey(items, name) == SelectSeq(items, LAMBDA it : it.key # name)

\* Object.values(items)
ObjectValues(items) == [i \in 1..Len(items) |-> items[i].value]

----------------------------------------------------------------------------
(* Virtual items *)

NoMeta == [k \in {} |-> TRUE]
SystemMeta == [isSystem |-> TRUE]

createVirtualFile(name, content, metaData) ==
  [type |-> "file", name |-> name, content |-> content, metaData |-> metaData]

createVirtualFolder(name, metaData) ==
  [type |-> "folder", name |-> name, items |-> <<>>, metaData |-> metaData]

\* new VirtualFileSystem({ root }): this.root = root || createVirtualFolder("")
VirtualFileSystem(root) ==
  IF Truthy(root) THEN root ELSE createVirtualFolder(<<>>, NoMeta)

\* new VirtualFileSystem()
EmptyRoot == VirtualFileSystem(Undefined)

\* item.metaData.isSystem as a condition
IsSystem(item) == "isSystem" \in DOMAIN item.metaData /\ item.metaData.isSystem = TRUE

----------------------------------------------------------------------------
(* Errors: one constructor per message of the source *)

FolderNotFound(path) == [error |-> "FolderNotFound", path |-> path]
FileNotFound(path) == [error |-> "FileNotFound", path |-> path]
NotFound(path) == [error |-> "NotFound", path |-> path]
AlreadyExists(name, path) == [error |-> "AlreadyExists", name |-> name, path |-> path]
SystemProtected(path) == [error |-> "SystemProtected", path |-> path]
InvalidPath(path) == [error |-> "InvalidPath", path |-> path]
TypeError == [error |-> "TypeError"]

Throw(e) == [ok |-> FALSE, error |-> e]

\* const x = value; body: the value is computed once and named in the body.
Bind(value, Body(_)) == Body(value)

----------------------------------------------------------------------------
(* VirtualFileSystem: path resolution *)

\* A faulty variant of WalkFolders: the error names the parts still to walk.
RECURSIVE WalkFoldersNamingRest(_, _, _)
WalkFoldersNamingRest(currentFolder, parts, path) ==
  IF parts = <<>> THEN [ok |-> TRUE, folder |-> currentFolder]
  ELSE LET nextFolder == Lookup(currentFolder.items, Head(parts))
       IN IF ~Truthy(nextFolder) \/ nextFolder.type # "folder"
          THEN Throw(FolderNotFound(Join(parts)))
          ELSE WalkFoldersNamingRest(nextFolder, Tail(parts), path)

\* The loop of getFolder over the remaining parts.
RECURSIVE WalkFolders(_, _, _)
WalkFolders(currentFolder, parts, path) ==
  IF parts = <<>> THEN [ok |-> TRUE, folder |-> currentFolder]
  ELSE LET nextFolder == Lookup(currentFolder.items, Head(parts))
       IN IF ~Truthy(nextFolder) \/ nextFolder.type # "folder"
          THEN Throw(FolderNotFound(path))
          ELSE WalkFolders(nextFolder, Tail(parts), path)

\* A faulty variant of getFolder: the error names the parts walked so far,
\* up to and including the one that failed.
RECURSIVE WalkFoldersSoFar(_, _, _)
WalkFoldersSoFar(currentFolder, parts, walked) ==
  IF parts = <<>> THEN [ok |-> TRUE, folder |-> currentFolder]
  ELSE LET nextFolder == Lookup(currentFolder.items, Head(parts))
       IN IF ~Truthy(nextFolder) \/ nextFolder.type # "folder"
          THEN Throw(FolderNotFound(Join(Append(walked, Head(parts)))))
          ELSE WalkFoldersSoFar(nextFolder, Tail(parts), Append(walked, Head(parts)))

getFolderSoFar(root, path) == WalkFoldersSoFar(root, PathParts(path), <<>>)

getFolder(root, path) == WalkFolders(root, PathParts(path), path)

\* A faulty variant of getParentFolderAndName: the name is popped before the
\* empty segments are filtered out, so a trailing slash leaves no name.
getParentFolderAndNameUnfiltered(root, path) ==
  LET parts == PathParts(path)
      name == PopName(Split(path))
      rest == PopRest(parts)
  IN IF name = <<>> THEN Throw(InvalidPath(path))
     ELSE Bind(WalkFolders(root, rest, Join(rest)), LAMBDA f :
            IF ~f.ok THEN f
            ELSE [ok |-> TRUE, parentFolder |-> f.folder, name |-> name, at |-> rest])

\* A faulty variant of getParentFolderAndName: no check that a name was popped.
getParentFolderAndNameUnchecked(root, path) ==
  LET parts == PathParts(path)
      name == PopName(parts)
      rest == PopRest(parts)
  IN Bind(getFolder(root, Join(rest)), LAMBDA f :
       IF ~f.ok THEN f
       ELSE [ok |-> TRUE, parentFolder |-> f.folder, name |-> name,
             at |-> PathParts(Join(rest))])

getParentFolderAndName(root, path) ==
  LET parts == PathParts(path)
      name == PopName(parts)
      rest == PopRest(parts)
  IN IF name = <<>> THEN Throw(InvalidPath(path))
     ELSE Bind(getFolder(root, Join(rest)), LAMBDA f :
            IF ~f.ok THEN f
            ELSE [ok |-> TRUE, parentFolder |-> f.folder, name |-> name,
                  at |-> PathParts(Join(rest))])

getFile(root, path) ==
  Bind(getParentFolderAndName(root, path), LAMBDA pn :
    IF ~pn.ok THEN pn
    ELSE LET file == Lookup(pn.parentFolder.items, pn.name)
         IN IF ~Truthy(file) \/ file.type # "file"
            THEN Throw(FileNotFound(path))
            ELSE [ok |-> TRUE, file |-> file, parentFolder |-> pn.parentFolder,
                  name |-> pn.name, at |-> pn.at])

----------------------------------------------------------------------------
(* immer: a recipe edits a draft of the receiver; the edited folder is      *)
(* copied along the path from the root, the receiver is left as it was.     *)

RECURSIVE WriteFolder(_, _, _)
WriteFolder(folder, at, edited) ==
  IF at = <<>> THEN edited
  ELSE [folder EXCEPT !.items =
          SetKey(folder.items, Head(at),
                 WriteFolder(Lookup(folder.items, Head(at)), Tail(at), edited))]

WithItems(folder, items) == [folder EXCEPT !.items = items]

\* A faulty variant of produce: the recipe edits the receiver itself.
produceInPlace(base, outcome) ==
  [recv |-> IF outcome.ok THEN outcome.draft ELSE base,
   out |-> IF outcome.ok THEN [ok |-> TRUE, fs |-> outcome.draft]
           ELSE Throw(outcome.error)]

\* produce(this, recipe): a recipe that throws discards the draft.
produce(base, outcome) ==
  [recv |-> base,
   out |-> IF outcome.ok THEN [ok |-> TRUE, fs |-> outcome.draft]
           ELSE Throw(outcome.error)]

----------------------------------------------------------------------------
(* VirtualFileSystem: operations.  A mutating operation yields the receiver *)
(* as it is after the call (recv) and what the call returned (out).         *)

\* A faulty variant of createFile's recipe: the new file is named by the path.
createFileRecipeNamedByPath(root, path, content, metaData) ==
  Bind(getParentFolderAndName(root, path), LAMBDA pn :
    IF ~pn.ok THEN pn
    ELSE IF Truthy(Lookup(pn.parentFolder.items, pn.name))
    THEN Throw(AlreadyExists(pn.name, path))
    ELSE [ok |-> TRUE,
          draft |-> WriteFolder(root, pn.at,
                      WithItems(pn.parentFolder,
                        SetKey(pn.parentFolder.items, pn.name,
                               createVirtualFile(path, content, metaData))))])

createFileRecipe(root, path, content, metaData) ==
  Bind(getParentFolderAndName(root, path), LAMBDA pn :
    IF ~pn.ok THEN pn
    ELSE IF Truthy(Lookup(pn.parentFolder.items, pn.name))
    THEN Throw(AlreadyExists(pn.name, path))
    ELSE [ok |-> TRUE,
          draft |-> WriteFolder(root, pn.at,
                      WithItems(pn.parentFolder,
                        SetKey(pn.parentFolder.items, pn.name,
                               createVirtualFile(pn.name, content, metaData))))])

createFile(root, path, content, metaData) ==
  produce(root, createFileRecipe(root, path, content, metaData))

\* A faulty variant of createFolder's recipe: no check for an existing item.
createFolderRecipeUnchecked(root, path, metaData) ==
  Bind(getParentFolderAndName(root, path), LAMBDA pn :
    IF ~pn.ok THEN pn
    ELSE [ok |-> TRUE,
          draft |-> WriteFolder(root, pn.at,
                      WithItems(pn.parentFolder,
                        SetKey(pn.parentFolder.items, pn.name,
                               createVirtualFolder(pn.name, metaData))))])

createFolderRecipe(root, path, metaData) ==
  Bind(getParentFolderAndName(root, path), LAMBDA pn :
    IF ~pn.ok THEN pn
    ELSE IF Truthy(Lookup(pn.parentFolder.items, pn.name))
    THEN Throw(AlreadyExists(pn.name, path))
    ELSE [ok |-> TRUE,
          draft |-> WriteFolder(root, pn.at,
                      WithItems(pn.parentFolder,
                        SetKey(pn.parentFolder.items, pn.name,
                               createVirtualFolder(pn.name, metaData))))])

createFolder(root, path, metaData) ==
  produce(root, createFolderRecipe(root, path, metaData))

\* An optional argument: left out (undefined) or given.
Omitted == [given |-> FALSE]
Given(v) == [given |-> TRUE, value |-> v]

\* A faulty variant of the metaData default: {} instead of the file's own.
NewMetaDataEmpty(metaArg, file) == IF metaArg.given THEN metaArg.value ELSE NoMeta

\* A faulty variant of the metaData assignment: { ...file.metaData, ...metaData }
NewMetaDataMerged(metaArg, file) ==
  IF metaArg.given
  THEN [k \in DOMAIN file.metaData \cup DOMAIN metaArg.value |->
          IF k \in DOMAIN metaArg.value THEN metaArg.value[k] ELSE file.metaData[k]]
  ELSE file.metaData

\* metaData ?? file.metaData
NewMetaData(metaArg, file) == IF metaArg.given THEN metaArg.value ELSE file.metaData

\* A faulty variant of updateFile's recipe: the content is not assigned.
updateFileRecipeMetaOnly(root, path, content, metaArg) ==
  Bind(getFile(root, path), LAMBDA f :
    IF ~f.ok THEN f
    ELSE [ok |-> TRUE,
          draft |-> WriteFolder(root, f.at,
                      WithItems(f.parentFolder,
                        SetKey(f.parentFolder.items, f.name,
                               [f.file EXCEPT !.metaData =
                                  IF metaArg.given THEN metaArg.value
                                  ELSE f.file.metaData])))])

updateFileRecipe(root, path, content, metaArg) ==
  Bind(getFile(root, path), LAMBDA f :
    IF ~f.ok THEN f
    ELSE [ok |-> TRUE,
          draft |-> WriteFolder(root, f.at,
                      WithItems(f.parentFolder,
                        SetKey(f.parentFolder.items, f.name,
                               [f.file EXCEPT !.content = content,
                                              !.metaData = NewMetaData(metaArg, f.file)])))])

updateFile(root, path, content, metaArg) ==
  produce(root, updateFileRecipe(root, path, content, metaArg))

createOrUpdateFile(root, path, content, metaData) ==
  Bind(updateFile(root, path, content, Given(metaData)), LAMBDA u :
    IF u.out.ok THEN u ELSE createFile(u.recv, path, content, metaData))

\* A faulty variant of delete's recipe: a folder that holds items stays.
deleteRecipeEmptyOnly(root, path) ==
  Bind(getParentFolderAndName(root, path), LAMBDA pn :
    IF ~pn.ok THEN pn
    ELSE LET item == Lookup(pn.parentFolder.items, pn.name)
         IN IF ~Truthy(item) THEN Throw(NotFound(path))
            ELSE IF item.type = "builtin" THEN Throw(TypeError)
            ELSE IF IsSystem(item) THEN Throw(SystemProtected(path))
            ELSE IF item.type = "folder" /\ item.items # <<>> THEN Throw(NotFound(path))
            ELSE [ok |-> TRUE,
                  draft |-> WriteFolder(root, pn.at,
                              WithItems(pn.parentFolder,
                                        DeleteKey(pn.parentFolder.items, pn.name)))])

deleteRecipe(root, path) ==
  Bind(getParentFolderAndName(root, path), LAMBDA pn :
    IF ~pn.ok THEN pn
    ELSE LET item == Lookup(pn.parentFolder.items, pn.name)
         IN IF ~Truthy(item) THEN Throw(NotFound(path))
            ELSE IF item.type = "builtin" THEN Throw(TypeError)
            ELSE IF IsSystem(item) THEN Throw(SystemProtected(path))
            ELSE [ok |-> TRUE,
                  draft |-> WriteFolder(root, pn.at,
                              WithItems(pn.parentFolder,
                                        DeleteKey(pn.parentFolder.items, pn.name)))])

delete(root, path) == produce(root, deleteRecipe(root, path))

readFile(root, path) ==
  Bind(getFile(root, path), LAMBDA f :
    IF ~f.ok THEN f ELSE [ok |-> TRUE, text |-> f.file.content])

listItems(root, path) ==
  Bind(getFolder(root, path), LAMBDA f :
    IF ~f.ok THEN f ELSE [ok |-> TRUE, list |-> ObjectValues(f.folder.items)])

Null == [type |-> "null"]

getItem(root, path) ==
  Bind(getParentFolderAndName(root, path), LAMBDA pn :
    IF ~pn.ok THEN pn
    ELSE LET item == Lookup(pn.parentFolder.items, pn.name)
         IN [ok |-> TRUE, item |-> IF Truthy(item) THEN item ELSE Null])

exists(root, path) ==
  Bind(getItem(root, path), LAMBDA g :
    [ok |-> TRUE, bool |-> IF g.ok THEN g.item # Null ELSE FALSE])

\* toJSON(): return this.root
toJSON(root) == root

\* A faulty variant of fromJSON: the data is not handed to the constructor.
fromJSONFresh(data) == VirtualFileSystem(Undefined)

\* static fromJSON(data): new VirtualFileSystem({ root: data })
fromJSON(data) == VirtualFileSystem(data)

----------------------------------------------------------------------------
(* Text and JSON.  The content of a file is a string, modelled like a path   *)
(* as the sequence of its pieces: a piece is "{", "}", ":", ",", a double    *)
(* quote, or a run of other characters.  An object is the sequence of its    *)
(* own properties, a property being defined or undefined; values are strings.*)

Text(str) == <<str>>
EmptyText == <<>>

DoubleQuote == "\""
Punctuation == {"{", "}", ":", ",", DoubleQuote}

Prop(key, value) == [key |-> key, value |-> value, defined |-> TRUE]
UndefinedProp(key) == [key |-> key, value |-> "", defined |-> FALSE]

Quote(str) == <<DoubleQuote, str, DoubleQuote>>

RECURSIVE Members(_)
Members(props) ==
  IF props = <<>> THEN <<>>
  ELSE Quote(Head(props).key) \o <<":">> \o Quote(Head(props).value)
         \o (IF Tail(props) = <<>> THEN <<>> ELSE <<",">> \o Members(Tail(props)))

\* JSON.stringify(obj): properties whose value is undefined are left out.
JSONstringify(obj) ==
  <<"{">> \o Members(SelectSeq(obj, LAMBDA pr : pr.defined)) \o <<"}">>

SyntaxError == [error |-> "SyntaxError"]

HasKey(obj, key) == \E i \in 1..Len(obj) : obj[i].key = key

\* { ...obj, [key]: prop }
SpreadOne(obj, prop) ==
  IF HasKey(obj, prop.key)
  THEN [i \in 1..Len(obj) |-> IF obj[i].key = prop.key THEN prop ELSE obj[i]]
  ELSE Append(obj, prop)

\* The members of an object after its opening brace: "key":"value", ... }
RECURSIVE ParseMembers(_, _)
ParseMembers(text, obj) ==
  IF /\ Len(text) >= 8
     /\ text[1] = DoubleQuote /\ text[2] \notin Punctuation /\ text[3] = DoubleQuote
     /\ text[4] = ":"
     /\ text[5] = DoubleQuote /\ text[6] \notin Punctuation /\ text[7] = DoubleQuote
  THEN LET next == SpreadOne(obj, Prop(text[2], text[6]))
       IN IF text[8] = "}" /\ Len(text) = 8 THEN [ok |-> TRUE, value |-> next]
          ELSE IF text[8] = "," THEN ParseMembers(SubSeq(text, 9, Len(text)), next)
          ELSE Throw(SyntaxError)
  ELSE Throw(SyntaxError)

\* JSON.parse(text) of the text of an object; any other text of the model
\* ("", "A", "B") is no JSON.
JSONparse(text) ==
  IF Len(text) >= 2 /\ text[1] = "{"
  THEN IF text[2] = "}"
       THEN IF Len(text) = 2 THEN [ok |-> TRUE, value |-> <<>>] ELSE Throw(SyntaxError)
       ELSE ParseMembers(SubSeq(text, 2, Len(text)), <<>>)
  ELSE Throw(SyntaxError)

\* { ...a, ...b }
RECURSIVE Spread(_, _)
Spread(a, b) == IF b = <<>> THEN a ELSE Spread(SpreadOne(a, Head(b)), Tail(b))

----------------------------------------------------------------------------
(* defaultFileSystem.ts *)

SYSTEM_PATH == <<Slash, "system">>
PROGRAMS_PATH == <<Slash, "system", Slash, "programs">>
REGISTRY_PATH == <<Slash, "system", Slash, "registry.reg">>
USER_PATH == <<Slash, "user">>

\* A faulty variant of createDefaultFileSystem: /user is created without metadata.
createDefaultFileSystemPlainUser ==
  createFile(
    createFolder(
      createFolder(
        createFolder(EmptyRoot, SYSTEM_PATH, SystemMeta).out.fs,
        PROGRAMS_PATH, SystemMeta).out.fs,
      USER_PATH, NoMeta).out.fs,
    REGISTRY_PATH, <<"{", "}">>, SystemMeta).out.fs

createDefaultFileSystem ==
  createFile(
    createFolder(
      createFolder(
        createFolder(EmptyRoot, SYSTEM_PATH, SystemMeta).out.fs,
        PROGRAMS_PATH, SystemMeta).out.fs,
      USER_PATH, SystemMeta).out.fs,
    REGISTRY_PATH, <<"{", "}">>, SystemMeta).out.fs

DEFAULT_FILE_SYSTEM == createDefaultFileSystem

----------------------------------------------------------------------------
(* state/programs.tsx: programsReducer *)

\* `${PROGRAMS_PATH}/${id}` and `${path}/<file>`
ProgramPath(id) == PROGRAMS_PATH \o <<Slash>> \o id
FileIn(path, file) == path \o <<Slash, file>>

AddProgram(id, prompt) == [type |-> "ADD_PROGRAM", id |-> id, prompt |-> prompt]
RemoveProgram(id) == [type |-> "REMOVE_PROGRAM", id |-> id]
\* rest: the payload without id and name; code: the optional code field.
UpdateProgram(id, code, rest) ==
  [type |-> "UPDATE_PROGRAM", id |-> id, code |-> code, rest |-> rest]

\* The action of a payload { id, ...fields }:
\* const { id: _id, name: _name, ...rest } = action.payload, and, if "code"
\* is in rest, const code = rest.code; delete rest.code
UpdateProgramOf(id, fields) ==
  UpdateProgram(id,
    IF \E i \in 1..Len(fields) : fields[i].key = "code"
    THEN Given(Head(SelectSeq(fields, LAMBDA pr : pr.key = "code")))
    ELSE Omitted,
    SelectSeq(fields, LAMBDA pr : pr.key \notin {"id", "name", "code"}))

\* A faulty variant of ADD_PROGRAM: the snapshot with the folder alone is returned.
addProgramFolderOnly(fs, action) == createFolder(fs, ProgramPath(action.id), NoMeta).out

addProgram(fs, action) ==
  LET path == ProgramPath(action.id)
  IN Bind(createFolder(fs, path, NoMeta).out, LAMBDA r1 :
       IF ~r1.ok THEN r1
       ELSE Bind(createFile(r1.fs, FileIn(path, "main.exe"),
                            JSONstringify(<<Prop("prompt", action.prompt)>>), NoMeta).out,
                 LAMBDA r2 :
                   IF ~r2.ok THEN r2
                   ELSE createFile(r2.fs, FileIn(path, "index.html"), EmptyText,
                                   NoMeta).out))

removeProgram(fs, action) == delete(fs, ProgramPath(action.id)).out

\* A faulty variant of UPDATE_PROGRAM: main.exe gets the payload's fields
\* alone, without those of the existing config.
updateProgramNoMerge(fs, action) ==
  LET path == ProgramPath(action.id)
  IN Bind(IF action.code.given
          THEN updateFile(fs, FileIn(path, "index.html"),
                          IF action.code.value.defined THEN Text(action.code.value.value)
                          ELSE EmptyText,
                          Omitted).out
          ELSE [ok |-> TRUE, fs |-> fs],
          LAMBDA r1 :
            IF ~r1.ok THEN r1
            ELSE updateFile(r1.fs, FileIn(path, "main.exe"), JSONstringify(action.rest),
                            Omitted).out)

\* A faulty variant of UPDATE_PROGRAM: a program that is missing is created.
updateProgramOrAdd(fs, action) ==
  addProgram(fs, AddProgram(action.id, "x"))

updateProgram(fs, action) ==
  LET path == ProgramPath(action.id)
  IN Bind(IF action.code.given
          THEN updateFile(fs, FileIn(path, "index.html"),
                          IF action.code.value.defined THEN Text(action.code.value.value)
                          ELSE EmptyText,
                          Omitted).out
          ELSE [ok |-> TRUE, fs |-> fs],
          LAMBDA r1 :
            IF ~r1.ok THEN r1
            ELSE Bind(readFile(fs, FileIn(path, "main.exe")), LAMBDA main :
                   IF ~main.ok THEN main
                   ELSE Bind(JSONparse(main.text), LAMBDA existing :
                          IF ~existing.ok THEN existing
                          ELSE updateFile(r1.fs, FileIn(path, "main.exe"),
                                          JSONstringify(Spread(existing.value, action.rest)),
                                          Omitted).out)))

programsReducer(fs, action) ==
  CASE action.type = "ADD_PROGRAM" -> addProgram(fs, action)
    [] action.type = "REMOVE_PROGRAM" -> removeProgram(fs, action)
    [] action.type = "UPDATE_PROGRAM" -> updateProgram(fs, action)

----------------------------------------------------------------------------
(* state/filesystem.tsx, state/programs.tsx, state/registry.tsx: the atoms.  *)
(* A write yields the value of privateFileSystemAtom after it, or the error  *)
(* that left the write.                                                      *)

\* fileSystemAtom (read): new VirtualFileSystem({ root: get(private).root })
fileSystemAtomRead(private) == VirtualFileSystem(private.root)

\* fileSystemAtom (write) with a snapshot, or with the result of the update
\* function applied to the current snapshot.
fileSystemAtomWrite(private, newState) ==
  IF newState.ok THEN [ok |-> TRUE, private |-> [root |-> toJSON(newState.fs)]]
  ELSE newState

\* getProgramEntry(item): null for what is no program, the entry otherwise;
\* JSON.parse of main.exe's content is not guarded.
getProgramEntry(item) ==
  IF item.type # "folder" THEN [ok |-> TRUE, entry |-> Null]
  ELSE LET main == Lookup(item.items, <<"main.exe">>)
           index == Lookup(item.items, <<"index.html">>)
       IN IF ~Truthy(main) \/ main.type # "file" THEN [ok |-> TRUE, entry |-> Null]
          ELSE Bind(JSONparse(main.content), LAMBDA config :
                 IF ~config.ok THEN config
                 ELSE [ok |-> TRUE,
                       entry |-> [type |-> "program",
                                  config |-> config.value,
                                  id |-> item.name,
                                  name |-> item.name,
                                  code |-> IF Truthy(index) /\ index.type = "file"
                                           THEN [type |-> "string", text |-> index.content]
                                           ELSE Null]])

\* programs.map(getProgramEntry).filter(Boolean)
RECURSIVE MapProgramEntries(_)
MapProgramEntries(programs) ==
  IF programs = <<>> THEN [ok |-> TRUE, programs |-> <<>>]
  ELSE Bind(getProgramEntry(Head(programs)), LAMBDA first :
         IF ~first.ok THEN first
         ELSE Bind(MapProgramEntries(Tail(programs)), LAMBDA others :
                IF ~others.ok THEN others
                ELSE [ok |-> TRUE,
                      programs |-> IF first.entry = Null THEN others.programs
                                   ELSE <<first.entry>> \o others.programs]))

\* programsAtom (read)
programsAtomRead(private) ==
  Bind(listItems(fileSystemAtomRead(private), PROGRAMS_PATH), LAMBDA programs :
    IF ~programs.ok THEN programs ELSE MapProgramEntries(programs.list))

\* programsAtom (write)
programsAtomWrite(private, action) ==
  fileSystemAtomWrite(private, programsReducer(fileSystemAtomRead(private), action))

\* registryAtom (read)
registryAtomRead(private) ==
  Bind(readFile(fileSystemAtomRead(private), REGISTRY_PATH), LAMBDA registry :
    IF ~registry.ok THEN registry ELSE JSONparse(registry.text))

\* registryAtom (write)
registryAtomWrite(private, update) ==
  fileSystemAtomWrite(private,
    updateFile(fileSystemAtomRead(private), REGISTRY_PATH, JSONstringify(update), Omitted).out)

\* File > Save: setFileSystem((fs) => fs.createOrUpdateFile(path, content))
saveFile(private, path, content) ==
  fileSystemAtomWrite(private,
    createOrUpdateFile(fileSystemAtomRead(private), path, content, NoMeta).out)

\* A faulty variant of the "set" message: the other keys are not spread.
registrySetAlone(private, prop) ==
  Bind(registryAtomRead(private), LAMBDA registry :
    IF ~registry.ok THEN registry
    ELSE registryAtomWrite(private, <<prop>>))

\* The iframe's registry message "listKeys": Object.keys(registry)
registryListKeys(private) ==
  Bind(registryAtomRead(private), LAMBDA registry :
    IF ~registry.ok THEN registry
    ELSE [ok |-> TRUE,
          list |-> [i \in 1..Len(registry.value) |-> registry.value[i].key]])

\* A faulty variant of the "set" message: the registry spread is the one read
\* when the page was loaded, not the current one.
registrySetStale(private, prop) ==
  registryAtomWrite(private,
    SpreadOne(registryAtomRead([root |-> toJSON(DEFAULT_FILE_SYSTEM)]).value, prop))

\* The iframe's registry messages "set" and "delete".
registrySet(private, prop) ==
  Bind(registryAtomRead(private), LAMBDA registry :
    IF ~registry.ok THEN registry
    ELSE registryAtomWrite(private, SpreadOne(registry.value, prop)))

----------------------------------------------------------------------------
(* Inputs *)

Names == {"a", "1"}
Tokens == Names \cup {Slash}

\* Every spelling of at most MaxPathLen pieces, a name being one piece
\* ("", "/", "a", "/a", "a/", "//", "a/1", "/a/", "a//", ...).
SpelledPaths ==
  {p \in UNION {[1..n -> Tokens] : n \in 0..MaxPathLen} :
     \A i \in 1..(Len(p) - 1) : p[i] = Slash \/ p[i + 1] = Slash}

\* The plain spelling "n1/n2/.../nk" of every chain of at most MaxDepth names.
PlainPaths ==
  {Join(parts) : parts \in UNION {[1..n -> {<<x>> : x \in Names}] : n \in 1..MaxDepth}}

\* Paths through a name that plain objects inherit.
InheritedNamePaths ==
  {<<"constructor">>, <<"a", Slash, "constructor">>, <<"constructor", Slash, "a">>}

Paths == SpelledPaths \cup PlainPaths \cup InheritedNamePaths

\* One spelling of every chain of names of Paths: the plain one.
PlainSpelledPaths == {<<>>} \cup PlainPaths \cup InheritedNamePaths

Contents == {Text("A"), Text("B")}
Metas == {NoMeta, SystemMeta}
MetaArgs == {Omitted} \cup {Given(m) : m \in Metas}

RECURSIVE Size(_)
RECURSIVE SizeOfItems(_)
Size(item) == IF item.type = "folder" THEN 1 + SizeOfItems(item.items) ELSE 1
SizeOfItems(items) ==
  IF items = <<>> THEN 0 ELSE Size(Head(items).value) + SizeOfItems(Tail(items))

\* The number of items below the root.
NodeCount(root) == SizeOfItems(root.items)

----------------------------------------------------------------------------
(* A client of the engine.  It holds one snapshot (vfs) and calls one        *)
(* operation at a time on it: pre is the receiver's value when the call was  *)
(* made, recv the receiver as it is once the call is over, ret what the call *)
(* returned or threw.  The client then goes on with the snapshot the call    *)
(* returned (vfs = vfs.createFile(...)) or with the one it had.              *)

Call(op, path, content, metaArg) ==
  [op |-> op, path |-> path, content |-> content, meta |-> metaArg]

Idle == Call("idle", <<>>, EmptyText, Omitted)
Nothing == [ok |-> TRUE]

\* The client has made no call yet.
ClientInit ==
  /\ vfs = EmptyRoot
  /\ pre = EmptyRoot
  /\ recv = EmptyRoot
  /\ call = Idle
  /\ ret = Nothing

\* privateFileSystemAtom starts from the default filesystem; nothing is in
\* localStorage yet.
StoreInit ==
  /\ store = [root |-> toJSON(DEFAULT_FILE_SYSTEM)]
  /\ persisted = [present |-> FALSE]
  /\ wrote = [by |-> "none", ok |-> TRUE]

\* A height is "auto" or a number of pixels.
Auto == [auto |-> TRUE, px |-> 0]
Px(n) == [auto |-> FALSE, px |-> n]

MIN_WINDOW_SIZE == [width |-> 300, height |-> Px(100)]

\* The state an atom of windowAtomFamily starts with.
DefaultWindowState ==
  [status |-> "normal",
   pos |-> [x |-> 100, y |-> 100],
   size |-> [width |-> 400, height |-> Auto],
   title |-> <<"Welcome to Windows 9X">>,
   program |-> [type |-> "welcome"],
   loading |-> FALSE]

\* The state of a window after createWindow's INIT when the caller gives a
\* title and a program: loading, size and pos are createWindow's defaults.
WindowState(title, program) ==
  [DefaultWindowState EXCEPT !.title = title, !.program = program,
                             !.loading = FALSE,
                             !.size = [MIN_WINDOW_SIZE EXCEPT !.height = Auto],
                             !.pos = [x |-> 200, y |-> 200]]

\* focusedWindowAtom holds a window id or null.
NoWindow == 0

\* The state of the Run form in a window.
NoForm == [isLoading |-> FALSE, awaiting |-> FALSE, name |-> <<>>, did |-> <<>>]

\* No iframe has loaded the API script or called it.
ApiInit ==
  /\ currId = [w \in 1..MaxWindows |-> 0]
  /\ promises = <<>>
  /\ requests = <<>>
  /\ fetching = {}
  /\ responses = <<>>
  /\ calls = 0
  /\ reloads = 0
  /\ keyWriters = {}

\* No window has delivered a write yet; the windows list holds "window1",
\* whose state is the default one of windowAtomFamily, the Welcome window.
DeskInit ==
  /\ delivered = <<>>
  /\ windowsList = <<1>>
  /\ windowStates = <<DefaultWindowState>>
  /\ runForms = <<NoForm>>
  /\ focusedWindow = NoWindow
  /\ drags = 0
  /\ listeners = <<>>
  /\ toIframe = <<>>
  /\ toHost = <<>>
  /\ saveClicks = 0
  /\ ApiInit

\* No request has reached the image-to-program route.
RouteInit ==
  /\ routeAt = "idle"
  /\ programStream = <<>>
  /\ consumed = 0
  /\ programResult = <<>>
  /\ startedSending = FALSE
  /\ sentIndex = 0
  /\ body = <<>>

Init == ClientInit /\ StoreInit /\ DeskInit /\ RouteInit

Mutation(c, r) ==
  /\ pre' = vfs
  /\ recv' = r.recv
  /\ vfs' = r.recv
  /\ ret' = r.out
  /\ call' = c
  /\ UNCHANGED <<storeVars, deskVars, routeVars>>

Query(c, r) ==
  /\ pre' = vfs
  /\ recv' = vfs
  /\ vfs' = vfs
  /\ ret' = r
  /\ call' = c
  /\ UNCHANGED <<storeVars, deskVars, routeVars>>

CreateFile ==
  /\ call = Idle
  /\ \E p \in Paths, c \in Contents, m \in Metas :
       \E r \in {createFile(vfs, p, c, m)} :
         Mutation(Call("createFile", p, c, Given(m)), r)

CreateFolder ==
  /\ call = Idle
  /\ \E p \in Paths, m \in Metas :
       \E r \in {createFolder(vfs, p, m)} :
         Mutation(Call("createFolder", p, EmptyText, Given(m)), r)

UpdateFile ==
  /\ call = Idle
  /\ \E p \in Paths, c \in Contents, m \in MetaArgs :
       \E r \in {updateFile(vfs, p, c, m)} :
         Mutation(Call("updateFile", p, c, m), r)

CreateOrUpdateFile ==
  /\ call = Idle
  /\ \E p \in Paths, c \in Contents, m \in Metas :
       \E r \in {createOrUpdateFile(vfs, p, c, m)} :
         Mutation(Call("createOrUpdateFile", p, c, Given(m)), r)

Delete ==
  /\ call = Idle
  /\ \E p \in Paths :
       \E r \in {delete(vfs, p)} :
         Mutation(Call("delete", p, EmptyText, Omitted), r)

ReadFile ==
  /\ call = Idle
  /\ \E p \in Paths :
       \E r \in {readFile(vfs, p)} :
         Query(Call("readFile", p, EmptyText, Omitted), r)

ListItems ==
  /\ call = Idle
  /\ \E p \in Paths :
       \E r \in {listItems(vfs, p)} :
         Query(Call("listItems", p, EmptyText, Omitted), r)

GetItem ==
  /\ call = Idle
  /\ \E p \in Paths :
       \E r \in {getItem(vfs, p)} :
         Query(Call("getItem", p, EmptyText, Omitted), r)

Exists ==
  /\ call = Idle
  /\ \E p \in Paths :
       \E r \in {exists(vfs, p)} :
         Query(Call("exists", p, EmptyText, Omitted), r)

GetFolder ==
  /\ call = Idle
  /\ \E p \in Paths :
       \E r \in {getFolder(vfs, p)} :
         Query(Call("getFolder", p, EmptyText, Omitted), r)

\* VirtualFileSystem.fromJSON(vfs.toJSON())
FromJSON ==
  /\ call = Idle
  /\ \E r \in {fromJSON(toJSON(vfs))} :
       Query(Call("fromJSON", <<>>, EmptyText, Omitted), [ok |-> TRUE, fs |-> r])

\* vfs = <the snapshot the call returned>
Adopt ==
  /\ call # Idle
  /\ ret.ok
  /\ "fs" \in DOMAIN ret
  /\ NodeCount(ret.fs) <= MaxNodes
  /\ vfs' = ret.fs
  /\ pre' = ret.fs
  /\ recv' = ret.fs
  /\ call' = Idle
  /\ ret' = Nothing
  /\ UNCHANGED <<storeVars, deskVars, routeVars>>

\* The result is dropped; the client goes on with the snapshot it holds.
Keep ==
  /\ call # Idle
  /\ vfs' = vfs
  /\ pre' = vfs
  /\ recv' = vfs
  /\ call' = Idle
  /\ ret' = Nothing
  /\ UNCHANGED <<storeVars, deskVars, routeVars>>

Next ==
  \/ CreateFile
  \/ CreateFolder
  \/ UpdateFile
  \/ CreateOrUpdateFile
  \/ Delete
  \/ ReadFile
  \/ ListItems
  \/ GetItem
  \/ Exists
  \/ GetFolder
  \/ FromJSON
  \/ Adopt
  \/ Keep

Spec == Init /\ [][Next]_vars

----------------------------------------------------------------------------
(* The store: the windows of the desktop write the one filesystem atom.      *)

ProgramIds == {<<"p">>, <<>>}
Prompts == {"x"}
SavePaths ==
  {FileIn(USER_PATH, "f"), USER_PATH, REGISTRY_PATH, <<>>,
   FileIn(ProgramPath(<<"p">>), "main.exe")}
SaveContents == {Text("A"), <<"{", "}">>}
RegistryProps == {Prop("k", "x"), Prop("k", "i"), UndefinedProp("k"), Prop("j", "x")}
CodeArgs == {Omitted, Given(Prop("code", "A")), Given(UndefinedProp("code"))}
\* The fields, other than id, of the payloads of UPDATE_PROGRAM: the icon
\* fetch's name and icon, onLoad's code, reloadIframe's code: undefined.
UpdateFields ==
  {<<Prop("name", "p"), Prop("icon", "i")>>, <<Prop("code", "A")>>, <<UndefinedProp("code")>>}

\* A faulty variant of the commit: a write that throws leaves an empty root.
CommitOrClear(private, r) == IF r.ok THEN r.private ELSE [root |-> EmptyRoot]

\* set(privateFileSystemAtom, ...) is reached only by a write that did not
\* throw; atomWithStorage then keeps the value and puts it in localStorage.
Commit(private, r) == IF r.ok THEN r.private ELSE private

\* A faulty variant of the storage: the value set is never put in localStorage.
PersistNothing(stored, r) == stored

Persist(stored, r) == IF r.ok THEN [present |-> TRUE, root |-> r.private.root] ELSE stored

\* wrote remembers the last write: who made it, with what argument, what it
\* returned or threw, and the store and localStorage as they were before it.
Write(by, arg, r) ==
  /\ store' = Commit(store, r)
  /\ persisted' = Persist(persisted, r)
  /\ wrote' = [by |-> by, arg |-> arg, ok |-> r.ok, result |-> r, before |-> store,
               persistedBefore |-> persisted]

DispatchAddProgram ==
  /\ UNCHANGED <<engineVars, routeVars, deskVars>>
  /\ \E id \in ProgramIds, prompt \in Prompts :
       \E r \in {programsAtomWrite(store, AddProgram(id, prompt))} :
         Write("ADD_PROGRAM", AddProgram(id, prompt), r)

DispatchRemoveProgram ==
  /\ UNCHANGED <<engineVars, routeVars, deskVars>>
  /\ \E id \in ProgramIds :
       \E r \in {programsAtomWrite(store, RemoveProgram(id))} :
         Write("REMOVE_PROGRAM", RemoveProgram(id), r)

DispatchUpdateProgram ==
  /\ UNCHANGED <<engineVars, routeVars, deskVars>>
  /\ \E id \in ProgramIds, fields \in UpdateFields :
       \E r \in {programsAtomWrite(store, UpdateProgramOf(id, fields))} :
         Write("UPDATE_PROGRAM",
               [id |-> id, code |-> UpdateProgramOf(id, fields).code, fields |-> fields], r)

SaveFile ==
  /\ UNCHANGED <<engineVars, routeVars, deskVars>>
  /\ \E path \in SavePaths, content \in SaveContents :
       \E r \in {saveFile(store, path, content)} :
         Write("save", [path |-> path, content |-> content], r)

RegistryMessage ==
  /\ UNCHANGED <<engineVars, routeVars, deskVars>>
  /\ \E prop \in RegistryProps :
       \E r \in {registrySet(store, prop)} : Write("registry", prop, r)

\* The page is loaded again: atomWithStorage gives the value kept under the
\* key "filesystem", or the initial value when there is none.
Reload ==
  /\ UNCHANGED <<engineVars, routeVars, deskVars>>
  /\ wrote.by # "none"
  /\ store' = IF persisted.present THEN [root |-> persisted.root]
              ELSE [root |-> toJSON(DEFAULT_FILE_SYSTEM)]
  /\ UNCHANGED persisted
  /\ wrote' = [by |-> "reload", ok |-> TRUE]

StoreNext ==
  \/ Reload
  \/ DispatchAddProgram
  \/ DispatchRemoveProgram
  \/ DispatchUpdateProgram
  \/ SaveFile
  \/ RegistryMessage

StoreSpec == Init /\ [][StoreNext]_vars

----------------------------------------------------------------------------
(* Deliveries: the iframes, the windows and the desktop each hand writes to *)
(* the store; the event loop runs the handlers one at a time, in the order   *)
(* of delivery, and `delivered` is that order.                               *)

RegistryWrites == {[by |-> "registry", arg |-> prop] : prop \in RegistryProps}
ProgramWrites ==
  {[by |-> "ADD_PROGRAM", arg |-> AddProgram(<<"p">>, "x")],
   [by |-> "REMOVE_PROGRAM", arg |-> RemoveProgram(<<"p">>)],
   [by |-> "UPDATE_PROGRAM", arg |-> [id |-> <<"p">>, code |-> Given(Prop("code", "A"))]],
   [by |-> "UPDATE_PROGRAM", arg |-> [id |-> <<"p">>, code |-> Omitted]]}
SaveWrites ==
  {[by |-> "save", arg |-> [path |-> FileIn(USER_PATH, "f"), content |-> Text("A")]],
   [by |-> "save", arg |-> [path |-> REGISTRY_PATH, content |-> Text("A")]],
   [by |-> "save", arg |-> [path |-> FileIn(ProgramPath(<<"p">>), "main.exe"),
                            content |-> <<"{", "}">>]]}

Deliver(w, r) ==
  /\ Len(delivered) < MaxWrites
  /\ Write(w.by, w.arg, r)
  /\ delivered' = Append(delivered, [by |-> w.by, arg |-> w.arg, ok |-> r.ok])
  /\ UNCHANGED <<engineVars, routeVars, apiVars, windowVars, saveVars>>

\* An iframe posts a registry "set" or "delete" message (Iframe.handleMessage).
IframeMessage ==
  /\ Len(delivered) < MaxWrites
  /\ \E w \in RegistryWrites : \E r \in {registrySet(store, w.arg)} : Deliver(w, r)

\* A component dispatches to programsAtom.
ProgramDispatch ==
  /\ Len(delivered) < MaxWrites
  /\ \E w \in ProgramWrites :
       \E r \in {programsAtomWrite(store,
                    IF w.by = "UPDATE_PROGRAM"
                    THEN UpdateProgram(w.arg.id, w.arg.code,
                           IF w.arg.code.given THEN <<>> ELSE <<Prop("icon", "i")>>)
                    ELSE w.arg)} : Deliver(w, r)

\* A Save dialog hands its path to the window's action.
WindowSave ==
  /\ Len(delivered) < MaxWrites
  /\ \E w \in SaveWrites :
       \E r \in {saveFile(store, w.arg.path, w.arg.content)} : Deliver(w, r)

DeliveryNext ==
  \/ IframeMessage
  \/ ProgramDispatch
  \/ WindowSave

DeliverySpec == Init /\ [][DeliveryNext]_vars

----------------------------------------------------------------------------
(* The desktop: the windows list, the state of each window, the Run form    *)
(* and the program icons.  A window id is the number of the createWindow    *)
(* call that made it (the code draws a random string); "window1" is 1.      *)

\* What is typed in the Run form: a short description is the program's name;
\* for one of more than 20 characters /api/name answers with a name.
ShortDescriptions == {"p"}
LongDescriptions == {"a long description"}
ApiNames == {<<"p">>, <<"q">>}

windowsListReducerAddsFirst(state, action) ==
  CASE action.type = "ADD" -> <<action.payload>> \o state
    [] action.type = "REMOVE" -> SelectSeq(state, LAMBDA id : id # action.payload)

\* windowsListAtom's reducer
windowsListReducer(state, action) ==
  CASE action.type = "ADD" -> Append(state, action.payload)
    [] action.type = "REMOVE" -> SelectSeq(state, LAMBDA id : id # action.payload)

Lists(list, id) == \E i \in 1..Len(list) : list[i] = id
IsOpen(id) == Lists(windowsList, id)

\* The createWindow calls that handlers may still make: one for every Run
\* form that is shown and not yet submitted, or that waits for its name, and
\* one for every registered saveComplete listener.
Reserved ==
  Cardinality({id \in 1..Len(windowStates) :
                 /\ windowStates[id].program.type = "run"
                 /\ \/ runForms[id].awaiting
                    \/ IsOpen(id) /\ ~runForms[id].isLoading})
  + Len(listeners)

\* createWindow({ title, program }): INIT of the window's atom, ADD to the
\* list, and the new window is the focused one.
createWindow(title, program) ==
  /\ windowStates' = Append(windowStates, WindowState(title, program))
  /\ windowsList' = windowsListReducer(windowsList,
                       [type |-> "ADD", payload |-> Len(windowStates) + 1])
  /\ focusedWindow' = Len(windowStates) + 1
  /\ UNCHANGED drags

\* programAtomFamily(id): programs.find((p) => p.id === id)
programAtomFamily(private, id) ==
  Bind(programsAtomRead(private), LAMBDA listing :
    IF ~listing.ok THEN listing
    ELSE LET found == SelectSeq(listing.programs, LAMBDA entry : entry.id = id)
         IN [ok |-> TRUE, program |-> IF found = <<>> THEN Undefined ELSE Head(found)])

\* The Run button of the task bar.
OpenRun ==
  /\ Len(windowStates) + Reserved + 2 <= MaxWindows
  /\ createWindow(<<"Run">>, [type |-> "run"])
  /\ runForms' = Append(runForms, NoForm)
  /\ UNCHANGED <<engineVars, routeVars, apiVars, storeVars, delivered, saveVars>>

\* Run.onSubmit from the name on: ADD_PROGRAM, createWindow, REMOVE of the
\* Run window.  A dispatch that throws ends the handler there.
SubmitNamed(id, name, prompt) ==
  \E r \in {programsAtomWrite(store, AddProgram(name, prompt))} :
    /\ Write("ADD_PROGRAM", AddProgram(name, prompt), r)
    /\ UNCHANGED drags
    /\ IF r.ok
       THEN /\ windowStates' =
                 Append(windowStates,
                        [WindowState(name, [type |-> "iframe", programID |-> name])
                           EXCEPT !.loading = TRUE,
                                  !.size = [width |-> 400, height |-> Px(400)]])
            /\ focusedWindow' = Len(windowStates) + 1
            /\ windowsList' =
                 windowsListReducer(
                   windowsListReducer(windowsList,
                                      [type |-> "ADD", payload |-> Len(windowStates) + 1]),
                   [type |-> "REMOVE", payload |-> id])
            /\ runForms' = Append([runForms EXCEPT ![id] =
                                     [isLoading |-> TRUE, awaiting |-> FALSE, name |-> name,
                                      did |-> <<"ADD_PROGRAM", "createWindow", "REMOVE">>]],
                                  NoForm)
       ELSE /\ UNCHANGED <<windowStates, windowsList, focusedWindow>>
            /\ runForms' = [runForms EXCEPT ![id] =
                              [isLoading |-> TRUE, awaiting |-> FALSE, name |-> name,
                               did |-> <<>>]]

\* The form of an open Run window is submitted.
RunSubmit ==
  /\ UNCHANGED <<engineVars, routeVars, apiVars, delivered, saveVars>>
  /\ \E id \in 1..Len(windowStates) :
       /\ IsOpen(id)
       /\ windowStates[id].program.type = "run"
       /\ IF runForms[id].isLoading
          THEN UNCHANGED <<storeVars, windowVars>>
          ELSE \/ \E description \in ShortDescriptions :
                    SubmitNamed(id, <<description>>, description)
               \/ \E description \in LongDescriptions :
                    /\ runForms' = [runForms EXCEPT ![id] =
                                      [isLoading |-> TRUE, awaiting |-> TRUE, name |-> <<>>,
                                       did |-> <<>>]]
                    /\ UNCHANGED <<storeVars, windowsList, windowStates, focusedWindow, drags>>

\* /api/name answers and the handler goes on, whether or not its window is
\* still shown.
NameArrives ==
  /\ UNCHANGED <<engineVars, routeVars, apiVars, delivered, saveVars>>
  /\ \E id \in 1..Len(windowStates) :
       /\ runForms[id].awaiting
       /\ \E name \in ApiNames, description \in LongDescriptions :
            SubmitNamed(id, name, description)

\* Cancel in the Run form, the close button of a window, File > Close.
CloseWindow ==
  /\ UNCHANGED <<engineVars, routeVars, apiVars, storeVars, delivered, saveVars, windowStates, runForms,
                 focusedWindow, drags>>
  /\ \E id \in 1..Len(windowStates) :
       /\ IsOpen(id)
       /\ windowsList' = windowsListReducer(windowsList, [type |-> "REMOVE", payload |-> id])

\* The names under the program icons of the desktop.
ProgramIcons ==
  Bind(programsAtomRead(store), LAMBDA listing :
    IF ~listing.ok THEN {}
    ELSE {listing.programs[i].name : i \in 1..Len(listing.programs)})

\* ProgramIcon: Run (or a double click)
IconRun ==
  /\ Len(windowStates) + Reserved + 1 <= MaxWindows
  /\ UNCHANGED <<engineVars, routeVars, apiVars, storeVars, delivered, saveVars>>
  /\ \E name \in ProgramIcons :
       /\ createWindow(name, [type |-> "iframe", programID |-> name])
       /\ runForms' = Append(runForms, NoForm)

\* ProgramIcon: Delete
IconDelete ==
  /\ UNCHANGED <<engineVars, routeVars, apiVars, delivered, saveVars, windowVars>>
  /\ \E name \in ProgramIcons :
       \E r \in {programsAtomWrite(store, RemoveProgram(name))} :
         Write("REMOVE_PROGRAM", RemoveProgram(name), r)

DesktopNext ==
  \/ OpenRun
  \/ RunSubmit
  \/ NameArrives
  \/ CloseWindow
  \/ IconRun
  \/ IconDelete

DesktopSpec == Init /\ [][DesktopNext]_vars

----------------------------------------------------------------------------
(* state/window.ts: the reducer of a window's atom; components/Window.tsx  *)
(* and components/OS.tsx: the pointer on the windows and on the task bar.   *)

Sides == {"top", "bottom", "left", "right",
          "top-left", "top-right", "bottom-left", "bottom-right"}

\* What the pointer moved by between two mousemove events, per axis.
Deltas == {-150, 150}

Max(a, b) == IF a >= b THEN a ELSE b

clampSizeWidthOnly(size) ==
  [width |-> Max(size.width, MIN_WINDOW_SIZE.width), height |-> size.height]

\* Math.max(size.width, MIN.width); "auto" stays, a number is raised likewise
clampSize(size) ==
  [width |-> Max(size.width, MIN_WINDOW_SIZE.width),
   height |-> IF size.height.auto THEN Auto
              ELSE Px(Max(size.height.px, MIN_WINDOW_SIZE.height.px))]

\* (state.size.height === "auto" ? 0 : state.size.height) + delta
Taller(size, delta) == Px((IF size.height.auto THEN 0 ELSE size.height.px) + delta)

handleResize(state, payload) ==
  CASE payload.side = "top" ->
         [state EXCEPT !.size.height = Taller(state.size, -payload.dy),
                       !.pos.y = state.pos.y - (-payload.dy)]
    [] payload.side = "bottom" ->
         [state EXCEPT !.size.height = Taller(state.size, payload.dy)]
    [] payload.side = "left" ->
         [state EXCEPT !.size.width = state.size.width + (-payload.dx),
                       !.pos.x = state.pos.x - (-payload.dx)]
    [] payload.side = "right" ->
         [state EXCEPT !.size.width = state.size.width + payload.dx]
    [] payload.side = "bottom-right" ->
         [state EXCEPT !.size.width = state.size.width + payload.dx,
                       !.size.height = Taller(state.size, payload.dy)]
    [] payload.side = "top-right" ->
         [state EXCEPT !.size.width = state.size.width + payload.dx,
                       !.size.height = Taller(state.size, -payload.dy),
                       !.pos.y = state.pos.y - (-payload.dy)]
    [] payload.side = "bottom-left" ->
         [state EXCEPT !.size.width = state.size.width + (-payload.dx),
                       !.size.height = Taller(state.size, payload.dy),
                       !.pos.x = state.pos.x - (-payload.dx)]
    [] payload.side = "top-left" ->
         [state EXCEPT !.size.width = state.size.width + (-payload.dx),
                       !.size.height = Taller(state.size, -payload.dy),
                       !.pos.x = state.pos.x - (-payload.dx),
                       !.pos.y = state.pos.y - (-payload.dy)]

windowReducer(state, action) ==
  CASE action.type = "TOGGLE_MAXIMIZE" ->
         [state EXCEPT !.status = IF state.status = "maximized" THEN "normal"
                                  ELSE "maximized"]
    [] action.type = "TOGGLE_MINIMIZE" ->
         [state EXCEPT !.status = IF state.status = "minimized" THEN "normal"
                                  ELSE "minimized"]
    [] action.type = "MOVE" ->
         IF state.status = "maximized" \/ state.status = "minimized" THEN state
         ELSE [state EXCEPT !.pos = [x |-> state.pos.x + action.payload.dx,
                                     y |-> state.pos.y + action.payload.dy]]
    [] action.type = "RESTORE" -> [state EXCEPT !.status = "normal"]
    [] action.type = "RESIZE" ->
         Bind(handleResize(state, action.payload), LAMBDA newState :
           [newState EXCEPT !.size = clampSize(newState.size)])

\* The windows the desktop renders whose element is displayed.
Displayed(id) == IsOpen(id) /\ windowStates[id].status # "minimized"

\* The desktop's mousedown listener: the window that contains the target is
\* focused, and no window is when the target lies in none.
MouseDown ==
  /\ UNCHANGED <<engineVars, routeVars, apiVars, storeVars, delivered, saveVars,
                 windowsList, windowStates, runForms, drags>>
  /\ \E target \in {id \in 1..Len(windowStates) : Displayed(id)} \cup {NoWindow} :
       focusedWindow' = target

\* WindowTaskBarItem: a click on the task bar button of a window.
TaskBarClick ==
  /\ UNCHANGED <<engineVars, routeVars, apiVars, storeVars, delivered, saveVars,
                 windowsList, runForms, drags>>
  /\ \E id \in 1..Len(windowStates) :
       /\ IsOpen(id)
       /\ focusedWindow' = id
       /\ windowStates' =
            IF windowStates[id].status = "minimized"
            THEN [windowStates EXCEPT ![id] = windowReducer(@, [type |-> "RESTORE"])]
            ELSE windowStates

\* The Minimize button of a window's title bar.
Minimize ==
  /\ UNCHANGED <<engineVars, routeVars, apiVars, storeVars, delivered, saveVars,
                 windowsList, runForms, drags>>
  /\ \E id \in 1..Len(windowStates) :
       /\ Displayed(id)
       /\ windowStates' =
            [windowStates EXCEPT ![id] = windowReducer(@, [type |-> "TOGGLE_MINIMIZE"])]
       /\ focusedWindow' = IF focusedWindow = id THEN NoWindow ELSE focusedWindow

\* A mousemove while one of the eight resize handles is held: RESIZE from
\* that side by the pointer's delta.
Resize ==
  /\ drags < MaxDrags
  /\ UNCHANGED <<engineVars, routeVars, apiVars, storeVars, delivered, saveVars,
                 windowsList, runForms, focusedWindow>>
  /\ drags' = drags + 1
  /\ \E id \in 1..Len(windowStates), side \in Sides, dx \in Deltas, dy \in Deltas :
       /\ Displayed(id)
       /\ windowStates' =
            [windowStates EXCEPT ![id] =
               windowReducer(@, [type |-> "RESIZE",
                                 payload |-> [side |-> side, dx |-> dx, dy |-> dy]])]

\* Windows are opened, closed, minimized and focused.
FocusNext ==
  \/ OpenRun
  \/ RunSubmit
  \/ IconRun
  \/ CloseWindow
  \/ MouseDown
  \/ TaskBarClick
  \/ Minimize

FocusSpec == Init /\ [][FocusNext]_vars

\* Windows are opened and resized.
ResizeNext ==
  \/ OpenRun
  \/ RunSubmit
  \/ Resize

ResizeSpec == Init /\ [][ResizeNext]_vars

----------------------------------------------------------------------------
(* File > Save in the menu of an iframe window, and the iframe's side of it. *)
(* A listener and a message carry the number of the click they come from,    *)
(* which the code does not keep; it only names them in the properties.       *)

\* What the program's save callback returns.
SaveCallbackContents == {EmptyText, Text("A")}

CanSave(id) ==
  /\ windowStates[id].program.type = "iframe"
  /\ "canSave" \in DOMAIN windowStates[id].program
  /\ windowStates[id].program.canSave

\* The program calls registerOnSave(callback); the host's handler of the
\* "registerOnSave" message merges canSave: true into the window's program.
RegisterOnSave ==
  /\ UNCHANGED <<engineVars, routeVars, apiVars, storeVars, delivered, saveVars, windowsList, runForms,
                 focusedWindow, drags>>
  /\ \E id \in 1..Len(windowStates) :
       /\ IsOpen(id)
       /\ windowStates[id].program.type = "iframe"
       /\ ~CanSave(id)
       /\ windowStates' =
            [windowStates EXCEPT ![id].program =
               [type |-> "iframe", programID |-> windowStates[id].program.programID,
                canSave |-> TRUE]]

\* File > Save: handleSaveComplete is added to the host window's "message"
\* listeners and { operation: "save" } is posted to the iframe.
SaveClick ==
  /\ saveClicks < MaxClicks
  /\ Len(windowStates) + Reserved + 1 <= MaxWindows
  /\ UNCHANGED <<engineVars, routeVars, apiVars, storeVars, delivered, windowVars, toHost>>
  /\ \E id \in 1..Len(windowStates) :
       /\ IsOpen(id)
       /\ CanSave(id)
       /\ saveClicks' = saveClicks + 1
       /\ listeners' = Append(listeners, [window |-> id, click |-> saveClicks + 1])
       /\ toIframe' = Append(toIframe, [window |-> id, operation |-> "save",
                                        click |-> saveClicks + 1])

\* The iframe's window.onmessage with a "save" message: the callback is
\* called, and saveComplete is posted only if its content is truthy.
IframeOnMessage ==
  /\ toIframe # <<>>
  /\ UNCHANGED <<engineVars, routeVars, apiVars, storeVars, delivered, windowVars, listeners, saveClicks>>
  /\ toIframe' = Tail(toIframe)
  /\ \E content \in SaveCallbackContents :
       toHost' = IF content # EmptyText
                 THEN Append(toHost, [source |-> Head(toIframe).window,
                                      operation |-> "saveComplete", content |-> content,
                                      click |-> Head(toIframe).click])
                 ELSE toHost

\* A "saveComplete" message reaches the host window: every registered
\* handleSaveComplete runs, removes itself and opens a Save dialog.
HostOnMessage ==
  /\ toHost # <<>>
  /\ UNCHANGED <<engineVars, routeVars, apiVars, storeVars, delivered, toIframe, saveClicks>>
  /\ toHost' = Tail(toHost)
  /\ listeners' = <<>>
  /\ windowStates' = windowStates \o
       [j \in 1..Len(listeners) |->
          WindowState(<<"Save">>, [type |-> "explorer", actionText |-> "Save",
                                   content |-> Head(toHost).content,
                                   click |-> listeners[j].click,
                                   answer |-> Head(toHost).click])]
  /\ windowsList' = windowsList \o
       [j \in 1..Len(listeners) |-> Len(windowStates) + j]
  /\ runForms' = runForms \o [j \in 1..Len(listeners) |-> NoForm]
  /\ focusedWindow' = IF listeners = <<>> THEN focusedWindow
                      ELSE Len(windowStates) + Len(listeners)
  /\ UNCHANGED drags

SaveNext ==
  \/ OpenRun
  \/ RunSubmit
  \/ NameArrives
  \/ RegisterOnSave
  \/ SaveClick
  \/ IframeOnMessage
  \/ HostOnMessage

SaveSpec == Init /\ [][SaveNext]_vars

----------------------------------------------------------------------------
(* The API script of a program's iframe (iframe/api.ts, served as /api.js)  *)
(* and the host's side of it (Iframe.handleMessage).  A call, the message   *)
(* it posts, the response to it and the promise it returns carry the number *)
(* of the call, `req`, which the code does not keep; it only tells in the   *)
(* properties which request a value answers.  Likewise `keyWriters` holds,  *)
(* for the properties, which program's iframe sent the set or delete of a   *)
(* key.                                                                      *)

\* The registry keys and properties the programs of the model use.
ApiKeys == {"k"}
ApiProps == {Prop("k", "x"), UndefinedProp("k")}

\* The windows whose Iframe component is mounted.
IframeWindows ==
  {id \in 1..Len(windowStates) :
     IsOpen(id) /\ windowStates[id].program.type = "iframe"}

\* The iframe shows srcDoc, without sandbox, when its program has code, and
\* the sandboxed src, in which no script runs, when it has none.
HasCode(private, programID) ==
  Bind(programAtomFamily(private, programID), LAMBDA found :
    /\ found.ok
    /\ found.program # Undefined
    /\ found.program.code # Null
    /\ found.program.code.text # EmptyText)

Scripted(w) == HasCode(store, windowStates[w].program.programID)

\* The windows that show the program of window w.
SameProgram(w) ==
  {v \in 1..Len(windowStates) :
     /\ windowStates[v].program.type = "iframe"
     /\ windowStates[v].program.programID = windowStates[w].program.programID}

\* registry[key]
registryGet(registry, key) ==
  LET found == SelectSeq(registry, LAMBDA pr : pr.key = key)
  IN IF found = <<>> THEN Undefined ELSE [type |-> "string", text |-> Head(found).value]

\* Iframe.onLoad: a program without code gets the document's outerHTML as
\* its code, and its iframes then show it as srcDoc.  The document is
\* fetched from /api/program; the messages that an earlier document posted
\* are tasks of the host from before the fetch, and have run by then; a
\* message not yet delivered to the document that is left is not delivered
\* to the next one.
IframeLoad ==
  /\ UNCHANGED <<engineVars, routeVars, delivered, windowVars, saveVars, currId, promises, requests,
                 fetching, calls, reloads, keyWriters>>
  /\ \E w \in IframeWindows :
       /\ ~Scripted(w)
       /\ \A i \in 1..Len(requests) : requests[i].source \notin SameProgram(w)
       /\ responses' = SelectSeq(responses, LAMBDA message : message.window \notin SameProgram(w))
       /\ \E r \in {programsAtomWrite(store,
                      UpdateProgram(windowStates[w].program.programID,
                                    Given(Prop("code", "A")), <<>>))} :
            Write("UPDATE_PROGRAM",
                  [id |-> windowStates[w].program.programID,
                   code |-> Given(Prop("code", "A"))], r)

\* const id = currId++; window.parent.postMessage({ operation, key, value, id }, "*")
PostRequest(w, operation, prop) ==
  /\ calls < MaxCalls
  /\ calls' = calls + 1
  /\ currId' = [currId EXCEPT ![w] = @ + 1]
  /\ requests' = Append(requests, [source |-> w, operation |-> operation,
                                   id |-> currId[w], prop |-> prop, req |-> calls + 1])

\* registry.get, registry.listKeys and chat: the message is posted and a
\* promise is returned, which a "message" listener of the document resolves.
ApiCallAwaited ==
  /\ calls < MaxCalls
  /\ UNCHANGED <<engineVars, routeVars, storeVars, delivered, windowVars, saveVars,
                 fetching, responses, reloads, keyWriters>>
  /\ \E w \in IframeWindows, operation \in {"get", "listKeys", "chat"}, key \in ApiKeys :
       /\ Scripted(w)
       /\ PostRequest(w, operation, UndefinedProp(key))
       /\ promises' = Append(promises, [window |-> w, id |-> currId[w], req |-> calls + 1,
                                        settled |-> FALSE])

\* registry.set and registry.delete: the message is posted, nothing is awaited.
ApiCallPosted ==
  /\ calls < MaxCalls
  /\ UNCHANGED <<engineVars, routeVars, storeVars, delivered, windowVars, saveVars,
                 promises, fetching, responses, reloads, keyWriters>>
  /\ \E w \in IframeWindows, prop \in ApiProps :
       /\ Scripted(w)
       /\ PostRequest(w, IF prop.defined THEN "set" ELSE "delete", prop)

\* What the handler of the Iframe component of window w posts back, as
\* event.source.postMessage({ operation: "result", id, value }).
Result(w, message, value) ==
  [window |-> message.source, handler |-> w, id |-> message.id, value |-> value,
   req |-> message.req]

\* A message of an iframe reaches the host window.  The handleMessage of
\* every mounted Iframe component runs; it returns unless the message comes
\* from its own iframe, reads the registry, and switches on the operation.
HostHandle ==
  /\ requests # <<>>
  /\ UNCHANGED <<engineVars, routeVars, delivered, windowVars, saveVars, currId, promises, calls,
                 reloads>>
  /\ requests' = Tail(requests)
  /\ LET message == Head(requests)
         handlers == {w \in IframeWindows : w = message.source}
     IN \E registry \in {registryAtomRead(store)} :
          IF handlers = {} \/ ~registry.ok
          THEN UNCHANGED <<storeVars, fetching, responses, keyWriters>>
          ELSE \E w \in handlers :
            CASE message.operation = "get" ->
                   /\ responses' = Append(responses,
                        Result(w, message, registryGet(registry.value, message.prop.key)))
                   /\ UNCHANGED <<storeVars, fetching, keyWriters>>
              [] message.operation \in {"set", "delete"} ->
                   /\ \E r \in {registrySet(store, message.prop)} :
                        Write("registry", message.prop, r)
                   /\ keyWriters' = keyWriters \cup
                        {[key |-> message.prop.key,
                          program |-> windowStates[w].program.programID]}
                   /\ UNCHANGED <<fetching, responses>>
              [] message.operation = "listKeys" ->
                   /\ responses' = Append(responses,
                        Result(w, message, registryListKeys(store).list))
                   /\ UNCHANGED <<storeVars, fetching, keyWriters>>
              [] message.operation = "chat" ->
                   /\ fetching' = fetching \cup {Result(w, message, [chat |-> message.req])}
                   /\ UNCHANGED <<storeVars, responses, keyWriters>>

\* The fetch of /api/chat of some "chat" message answers, and the handler
\* posts the result to the window the message came from.
ChatAnswers ==
  /\ fetching # {}
  /\ UNCHANGED <<engineVars, routeVars, storeVars, delivered, windowVars, saveVars, currId, promises,
                 requests, calls, reloads, keyWriters>>
  /\ \E result \in fetching :
       /\ fetching' = fetching \ {result}
       /\ responses' = Append(responses, result)

\* A message of the host reaches the document in the iframe: every listener
\* whose id is the message's id resolves its promise with the value.
Resolve(promise, message) ==
  IF promise.window = message.window /\ promise.id = message.id /\ ~promise.settled
  THEN [window |-> promise.window, id |-> promise.id, req |-> promise.req,
        settled |-> TRUE, value |-> message.value, answers |-> message.req]
  ELSE promise

IframeReceives ==
  /\ responses # <<>>
  /\ UNCHANGED <<engineVars, routeVars, storeVars, delivered, windowVars, saveVars, currId, requests,
                 fetching, calls, reloads, keyWriters>>
  /\ responses' = Tail(responses)
  /\ promises' = [i \in 1..Len(promises) |-> Resolve(promises[i], Head(responses))]

\* File > Reload: reloadIframe(id) resets the program's code and reloads the
\* iframe's document.  Every iframe that shows the program leaves its
\* document, with its listeners, its counter and the messages not yet
\* delivered to it; the next document that runs the script counts from 0.
ReloadIframe ==
  /\ reloads < MaxReloads
  /\ UNCHANGED <<engineVars, routeVars, delivered, windowVars, saveVars, requests, fetching, calls,
                 keyWriters>>
  /\ \E w \in IframeWindows :
       \E found \in {programAtomFamily(store, windowStates[w].program.programID)} :
         /\ found.ok
         /\ found.program # Undefined
         /\ \E r \in {programsAtomWrite(store,
                        UpdateProgram(found.program.id, Given(UndefinedProp("code")), <<>>))} :
              /\ r.ok
              /\ Write("UPDATE_PROGRAM",
                       [id |-> found.program.id, code |-> Given(UndefinedProp("code"))], r)
         /\ reloads' = reloads + 1
         /\ currId' = [v \in DOMAIN currId |-> IF v \in SameProgram(w) THEN 0 ELSE currId[v]]
         /\ promises' = SelectSeq(promises, LAMBDA promise : promise.window \notin SameProgram(w))
         /\ responses' = SelectSeq(responses, LAMBDA message : message.window \notin SameProgram(w))

ApiNext ==
  \/ OpenRun
  \/ RunSubmit
  \/ IconRun
  \/ IframeLoad
  \/ ApiCallAwaited
  \/ ApiCallPosted
  \/ HostHandle
  \/ ChatAnswers
  \/ IframeReceives
  \/ ReloadIframe

ApiSpec == Init /\ [][ApiNext]_vars

\* Two programs, named by /api/name, and the registry calls of their iframes.
RegistryApiNext ==
  \/ OpenRun
  \/ RunSubmit
  \/ NameArrives
  \/ IframeLoad
  \/ ApiCallAwaited
  \/ ApiCallPosted
  \/ HostHandle
  \/ IframeReceives

RegistryApiSpec == Init /\ [][RegistryApiNext]_vars

----------------------------------------------------------------------------
(* The image-to-program route: GET streams the html of the model's answer. *)
(* A text is the sequence of its pieces: a backquote, the word html, or a   *)
(* run of other characters; an index counts pieces.                         *)

\* The backquote character, U+0060.
Backquote == "U+0060"
OpeningFence == <<Backquote, Backquote, Backquote, "html">>
ClosingFence == <<Backquote, Backquote, Backquote>>

\* What the model may answer: text, the opening fence, a page, the closing
\* fence, text.
ModelOutputs ==
  {before \o OpeningFence \o page \o ClosingFence \o after :
     before \in {<<>>, <<"Here">>},
     page \in {<<"<p>">>, <<"<p>", "</p>">>},
     after \in {<<>>, <<"Done">>}}

\* The ways a text arrives as at most MaxChunks chunks, of any lengths.
Chunkings(text) ==
  UNION {
    {[i \in 1..n |-> SubSeq(text, (IF i = 1 THEN 0 ELSE cut[i - 1]) + 1,
                                  IF i = n THEN Len(text) ELSE cut[i])] :
       cut \in {c \in [1..(n - 1) -> 0..Len(text)] :
                  \A i \in 1..(n - 2) : c[i] <= c[i + 1]}} :
    n \in 1..MaxChunks}

\* text.match(pattern): the index of the first occurrence, or no match.
match(text, pattern) ==
  LET at == {i \in 0..(Len(text) - Len(pattern)) :
               SubSeq(text, i + 1, i + Len(pattern)) = pattern}
  IN IF at = {} THEN [found |-> FALSE]
     ELSE [found |-> TRUE, index |-> CHOOSE i \in at : \A j \in at : i <= j]

\* text.slice(start, end) for indices within the text
slice(text, start, end) == IF start >= end THEN <<>> ELSE SubSeq(text, start + 1, end)

\* The request arrives; createProgramStream resolves to the model's stream.
RouteGet ==
  /\ routeAt = "idle"
  /\ UNCHANGED <<engineVars, storeVars, deskVars>>
  /\ \E text \in ModelOutputs : \E chunks \in Chunkings(text) :
       programStream' = chunks
  /\ routeAt' = "streaming"
  /\ consumed' = 0
  /\ programResult' = <<>>
  /\ startedSending' = FALSE
  /\ sentIndex' = 0
  /\ body' = <<>>

\* One round of `for await (const chunk of programStream)`.
RouteChunk ==
  /\ routeAt = "streaming"
  /\ consumed < Len(programStream)
  /\ UNCHANGED <<engineVars, storeVars, deskVars, programStream>>
  /\ consumed' = consumed + 1
  /\ Bind(programResult \o programStream[consumed + 1], LAMBDA result :
       IF startedSending
       THEN IF match(result, ClosingFence).found
            THEN /\ body' = body \o slice(result, sentIndex,
                                           match(result, ClosingFence).index)
                 /\ routeAt' = "ended"
                 /\ programResult' = result
                 /\ UNCHANGED <<startedSending, sentIndex>>
            ELSE /\ body' = body \o programStream[consumed + 1]
                 /\ sentIndex' = Len(result)
                 /\ programResult' = result
                 /\ UNCHANGED <<startedSending, routeAt>>
       ELSE IF match(result, OpeningFence).found
            THEN Bind(slice(result, match(result, OpeningFence).index + Len(OpeningFence),
                            Len(result)), LAMBDA rest :
                   /\ programResult' = rest
                   /\ body' = body \o rest
                   /\ sentIndex' = Len(rest)
                   /\ startedSending' = TRUE
                   /\ UNCHANGED routeAt)
            ELSE /\ programResult' = result
                 /\ UNCHANGED <<startedSending, sentIndex, body, routeAt>>)

\* The loop is left, by break or at the end of the stream, and the
\* response's stream is closed.
RouteClose ==
  /\ \/ routeAt = "ended"
     \/ routeAt = "streaming" /\ consumed = Len(programStream)
  /\ UNCHANGED <<engineVars, storeVars, deskVars, programStream, consumed, programResult,
                 startedSending, sentIndex, body>>
  /\ routeAt' = "closed"

RouteNext ==
  \/ RouteGet
  \/ RouteChunk
  \/ RouteClose

RouteSpec == Init /\ [][RouteNext]_vars

----------------------------------------------------------------------------
(* Observations used by the properties, defined without the engine's own    *)
(* resolution code.                                                          *)

Mutators == {"createFile", "createFolder", "updateFile", "createOrUpdateFile", "delete"}

OwnNames(folder) == {folder.items[i].key : i \in 1..Len(folder.items)}

Child(folder, name) ==
  folder.items[CHOOSE i \in 1..Len(folder.items) : folder.items[i].key = name].value

\* The item the chain of names leads to from the root, if there is one.
RECURSIVE Reaches(_, _)
Reaches(item, parts) ==
  \/ parts = <<>>
  \/ /\ item.type = "folder"
     /\ Head(parts) \in OwnNames(item)
     /\ Reaches(Child(item, Head(parts)), Tail(parts))

RECURSIVE ItemAt(_, _)
ItemAt(item, parts) ==
  IF parts = <<>> THEN item ELSE ItemAt(Child(item, Head(parts)), Tail(parts))

IsFolderAt(root, parts) == Reaches(root, parts) /\ ItemAt(root, parts).type = "folder"
IsFileAt(root, parts) == Reaches(root, parts) /\ ItemAt(root, parts).type = "file"

ChildNames(folder) == [i \in 1..Len(folder.items) |-> folder.items[i].value.name]

\* Every item of a tree with the chain of names that leads to it: a file
\* with its content, a folder with the names of its children in listing order.
RECURSIVE Entries(_, _)
Entries(item, at) ==
  IF item.type = "file"
  THEN {[at |-> at, type |-> "file", metaData |-> item.metaData, content |-> item.content]}
  ELSE {[at |-> at, type |-> "folder", metaData |-> item.metaData, names |-> ChildNames(item)]}
       \cup UNION {Entries(item.items[i].value, Append(at, item.items[i].key)) :
                     i \in 1..Len(item.items)}

\* The non-empty segments of a path string.
Segments(path) == SelectSeq(Split(path), LAMBDA seg : Len(seg) > 0)

\* The segments of every path of the input set, tabulated.
RECURSIVE SegmentsTable(_)
SegmentsTable(paths) ==
  IF paths = {} THEN <<>>
  ELSE LET p == CHOOSE q \in paths : TRUE
       IN (p :> Segments(p)) @@ SegmentsTable(paths \ {p})

SegmentsOfPaths == SegmentsTable(Paths)

Parts(path) == IF path \in Paths THEN SegmentsOfPaths[path] ELSE Segments(path)
ParentParts(path) == SubSeq(Parts(path), 1, Len(Parts(path)) - 1)
LastName(path) == Parts(path)[Len(Parts(path))]

\* The parent folder of the path exists in the tree.
ParentResolves(root, path) == Parts(path) # <<>> /\ IsFolderAt(root, ParentParts(path))

\* The final name of the path is held by the parent folder.
Occupied(root, path) == ParentResolves(root, path) /\ Reaches(root, Parts(path))

RECURSIVE NoDuplicateNames(_)
NoDuplicateNames(item) ==
  item.type = "folder" =>
    /\ \A i, j \in 1..Len(item.items) :
         item.items[i].value.name = item.items[j].value.name => i = j
    /\ \A i \in 1..Len(item.items) : NoDuplicateNames(item.items[i].value)

Returned == call # Idle
Succeeded == Returned /\ ret.ok
Failed == Returned /\ ~ret.ok

----------------------------------------------------------------------------
(* C1 (immutability of the receiver) *)

----------------------------------------------------------------------------
(* C3 (no overwrite on create) *)

\* C3: createFile and createFolder on a path whose final name is held by the
\* parent folder, as a file or as a folder, fail with AlreadyExists(name, path)
\* and leave the item as it is; no folder ever holds two children of one name.
C3_CreateNeverOverwrites ==
  /\ (Returned /\ call.op \in {"createFile", "createFolder"} /\ Occupied(pre, call.path)) =>
       /\ ret = Throw(AlreadyExists(LastName(call.path), call.path))
       /\ recv = pre
  /\ NoDuplicateNames(vfs)
  /\ (Succeeded /\ call.op \in Mutators) => NoDuplicateNames(ret.fs)

C3_Witness ==
  /\ call.op = "createFolder"
  /\ IsFileAt(pre, Parts(call.path))
  /\ Len(Parts(call.path)) = 2
  /\ ~ret.ok

----------------------------------------------------------------------------
(* C4 (reads reflect the latest write) *)

----------------------------------------------------------------------------
(* C5 (update keeps metadata) *)

\* The file entry of the path, with another content.
UpdatedEntry(root, path, content) ==
  [at |-> Parts(path), type |-> "file", content |-> content,
   metaData |-> ItemAt(root, Parts(path)).metaData]

OldEntry(root, path) ==
  [at |-> Parts(path), type |-> "file", content |-> ItemAt(root, Parts(path)).content,
   metaData |-> ItemAt(root, Parts(path)).metaData]

\* C5: updateFile(p, content) without a metaData argument replaces the content
\* of the file alone: its metaData and every other item of the tree are the
\* same in the returned snapshot; metaData differs only if the argument was given.
C5_UpdateKeepsMetaData ==
  (Succeeded /\ call.op = "updateFile") =>
    /\ ~call.meta.given =>
         Entries(ret.fs, <<>>) =
           (Entries(pre, <<>>) \ {OldEntry(pre, call.path)})
             \cup {UpdatedEntry(pre, call.path, call.content)}
    /\ ItemAt(ret.fs, Parts(call.path)).metaData # ItemAt(pre, Parts(call.path)).metaData
         => call.meta.given

C5_Witness ==
  /\ call.op = "updateFile"
  /\ ret.ok
  /\ ~call.meta.given
  /\ ItemAt(pre, Parts(call.path)).metaData = SystemMeta
  /\ ItemAt(pre, Parts(call.path)).content # call.content
  /\ NodeCount(pre) > 1

----------------------------------------------------------------------------
(* C6 (deletion protection) *)

\* C6: delete(p) on an item, file or folder, whose metaData.isSystem is true
\* fails with SystemProtected(p) and the item stays; delete on a name the
\* parent folder does not hold fails with NotFound(p).
C6_DeleteProtection ==
  (Returned /\ call.op = "delete" /\ ParentResolves(pre, call.path)) =>
    /\ (Occupied(pre, call.path) /\ IsSystem(ItemAt(pre, Parts(call.path)))) =>
         /\ ret = Throw(SystemProtected(call.path))
         /\ recv = pre
         /\ Occupied(vfs, call.path)
    /\ ~Occupied(pre, call.path) => ret = Throw(NotFound(call.path))

----------------------------------------------------------------------------
(* C7 (missing parent chain) *)

ParentOps == {"createFile", "createFolder", "readFile", "updateFile", "delete", "getItem"}

\* Some folder on the way to the parent of the path is missing.
ParentChainBroken(root, path) ==
  Parts(path) # <<>> /\ ~IsFolderAt(root, ParentParts(path))

\* C7: an operation that resolves parent and name, on a path whose parent chain
\* has a missing folder, fails with FolderNotFound(X) where X is the path
\* without its last segment ("a/1" for "a/1/a"), and creates no folder.
C7_MissingParentReported ==
  (Returned /\ call.op \in ParentOps /\ ParentChainBroken(pre, call.path)) =>
    /\ ~ret.ok
    /\ ret.error.error = "FolderNotFound"
    /\ Split(ret.error.path) = ParentParts(call.path)
    /\ call.path \in PlainPaths => ret.error.path = SubSeq(call.path, 1, Len(call.path) - 2)
    /\ recv = pre
    /\ vfs = pre

C7_Witness ==
  /\ call.op = "createFile"
  /\ call.path = <<"a", Slash, "1", Slash, "a">>
  /\ pre = EmptyRoot
  /\ ret = Throw(FolderNotFound(<<"a", Slash, "1">>))

----------------------------------------------------------------------------
(* C8 (what the FolderNotFound error carries) *)

\* The number of leading names of the chain that lead to folders.
RECURSIVE FoldersAlong(_, _)
FoldersAlong(item, parts) ==
  IF parts # <<>> /\ IsFolderAt(item, <<Head(parts)>>)
  THEN 1 + FoldersAlong(Child(item, Head(parts)), Tail(parts))
  ELSE 0

\* The names consumed when resolution stops: up to and including the failing one.
ConsumedSoFar(root, path) == SubSeq(Parts(path), 1, FoldersAlong(root, Parts(path)) + 1)

\* C8 as stated: the error of getFolder carries the sub-path consumed so far,
\* the segments up to and including the failing one.
C8_CarriesSubPathSoFar ==
  (Failed /\ call.op = "getFolder") =>
    /\ ret.error.error = "FolderNotFound"
    /\ FilterBoolean(Split(ret.error.path)) = ConsumedSoFar(pre, call.path)

\* C8 as amended: getFolder fails exactly when some segment is missing or is
\* not a folder, and its error carries the whole path string it was given;
\* for an operation on parent and name that is the parent path.
C8_CarriesPathGiven ==
  /\ (Returned /\ call.op = "getFolder") =>
       IF IsFolderAt(pre, Parts(call.path))
       THEN ret = [ok |-> TRUE, folder |-> ItemAt(pre, Parts(call.path))]
       ELSE ret = Throw(FolderNotFound(call.path))
  /\ (Failed /\ call.op = "listItems") => ret = Throw(FolderNotFound(call.path))
  /\ (Failed /\ call.op \in ParentOps /\ ret.error.error = "FolderNotFound") =>
       FilterBoolean(Split(ret.error.path)) = ParentParts(call.path)

C8_Witness ==
  /\ call.op = "getFolder"
  /\ ~ret.ok
  /\ Len(Parts(call.path)) = 3
  /\ FoldersAlong(pre, Parts(call.path)) = 1
  /\ ret.error.path = call.path

----------------------------------------------------------------------------
(* C9 (listing order) *)

ListedNames(root, path) ==
  LET l == listItems(root, path).list IN [i \in 1..Len(l) |-> l[i].name]

\* C9: listItems gives the children in the order of their creation: a created
\* child is listed last, and a deletion keeps the order of the others.
C9_ListingInCreationOrder ==
  /\ (Succeeded /\ call.op \in {"createFile", "createFolder"}) =>
       ListedNames(ret.fs, Join(ParentParts(call.path))) =
         Append(ListedNames(pre, Join(ParentParts(call.path))), LastName(call.path))
  /\ (Succeeded /\ call.op = "delete") =>
       ListedNames(ret.fs, Join(ParentParts(call.path))) =
         SelectSeq(ListedNames(pre, Join(ParentParts(call.path))),
                   LAMBDA n : n # LastName(call.path))

----------------------------------------------------------------------------
(* C10 (spellings of a path) *)

\* The operation of a call, on another spelling of its path.
Apply(c, root, path) ==
  CASE c.op = "createFile" -> createFile(root, path, c.content, c.meta.value).out
    [] c.op = "createFolder" -> createFolder(root, path, c.meta.value).out
    [] c.op = "updateFile" -> updateFile(root, path, c.content, c.meta).out
    [] c.op = "createOrUpdateFile" ->
         createOrUpdateFile(root, path, c.content, c.meta.value).out
    [] c.op = "delete" -> delete(root, path).out
    [] c.op = "readFile" -> readFile(root, path)
    [] c.op = "listItems" -> listItems(root, path)
    [] c.op = "getItem" -> getItem(root, path)
    [] c.op = "exists" -> exists(root, path)
    [] c.op = "getFolder" -> getFolder(root, path)

SameOutcome(r1, r2) ==
  /\ r1.ok = r2.ok
  /\ r1.ok => r1 = r2
  /\ ~r1.ok => r1.error.error = r2.error.error

\* The plain spelling of a path: its non-empty segments joined by "/".
PlainSpelling(path) == Join(Parts(path))

\* C10: two spellings of a path that differ in leading, trailing or doubled
\* slashes give, for every operation on the same snapshot, the same success
\* or the same kind of failure and the same tree; "" is the root.  Every
\* call on another spelling is compared with the same call on the plain
\* spelling of its path, so any two spellings with the same segments agree.
C10_SpellingsEquivalent ==
  Returned =>
    /\ call.path # PlainSpelling(call.path) =>
         SameOutcome(ret, Apply(call, pre, PlainSpelling(call.path)))
    /\ (call.op = "getFolder" /\ call.path = <<>>) => ret = [ok |-> TRUE, folder |-> pre]
    /\ (call.op = "listItems" /\ call.path = <<>>) => ret = [ok |-> TRUE, list |-> ObjectValues(pre.items)]

C10_Witness ==
  /\ call.op = "createFile"
  /\ call.path = <<Slash, "a", Slash>>
  /\ NodeCount(pre) > 0
  /\ ret.ok
  /\ ret.fs = createFile(pre, <<"a">>, call.content, call.meta.value).out.fs

----------------------------------------------------------------------------
(* C2 (a failed write leaves the store as it was) *)

\* C2: a failed operation returns no snapshot, and a write to the store that
\* fails inside fileSystemAtom, programsAtom or registryAtom leaves the current
\* snapshot and the persisted root what they were before the attempt.
C2_FailedWriteChangesNothing ==
  (wrote.by # "none" /\ ~wrote.ok) =>
    /\ "private" \notin DOMAIN wrote.result
    /\ store = wrote.before
    /\ persisted = wrote.persistedBefore

C2_Witness ==
  /\ wrote.by = "UPDATE_PROGRAM"
  /\ ~wrote.ok
  /\ wrote.result.error = SyntaxError
  /\ persisted.present
  /\ store.root # toJSON(DEFAULT_FILE_SYSTEM)

----------------------------------------------------------------------------
(* C11 (round trip through toJSON and fromJSON) *)

\* C11: for a snapshot built by create, update and delete operations,
\* fromJSON(toJSON()) is a snapshot on which listItems and readFile give, at
\* every path, what they give on the original (the same values in the same
\* order, the same errors), and the original is left as it was.  The paths
\* are taken in their plain spelling (C10 covers the other spellings).
C11_RoundTripReadsAlike ==
  (Returned /\ call.op = "fromJSON") =>
    /\ ret.ok
    /\ \A q \in PlainSpelledPaths :
         /\ listItems(ret.fs, q) = listItems(pre, q)
         /\ readFile(ret.fs, q) = readFile(pre, q)
    /\ recv = pre
    /\ vfs = pre

C11_Witness ==
  /\ call.op = "fromJSON"
  /\ NodeCount(pre) = 2
  /\ readFile(ret.fs, <<"a", Slash, "1">>) = [ok |-> TRUE, text |-> Text("B")]
  /\ Len(listItems(ret.fs, <<"a">>).list) = 1
  /\ ~readFile(ret.fs, <<"1">>).ok

----------------------------------------------------------------------------
(* C12 (toJSON mirrors the tree) *)

\* The fields of the VirtualFile and VirtualFolder types, and every property
\* of a folder's items keyed by the name field of its value.
RECURSIVE WellShaped(_)
WellShaped(item) ==
  IF item.type = "file"
  THEN DOMAIN item = {"type", "name", "content", "metaData"}
  ELSE /\ item.type = "folder"
       /\ DOMAIN item = {"type", "name", "metaData", "items"}
       /\ \A i \in 1..Len(item.items) :
            /\ item.items[i].key = item.items[i].value.name
            /\ WellShaped(item.items[i].value)

IsMirror(json) == json.type = "folder" /\ json.name = <<>> /\ WellShaped(json)

\* createFolder("a"), createFile("a/1", "A"), createFile("a/a", "B")
ExampleMirror ==
  [type |-> "folder", name |-> <<>>, metaData |-> NoMeta,
   items |-> <<[key |-> <<"a">>,
                value |-> [type |-> "folder", name |-> <<"a">>, metaData |-> NoMeta,
                           items |-> <<[key |-> <<"1">>,
                                        value |-> [type |-> "file", name |-> <<"1">>,
                                                   content |-> Text("A"),
                                                   metaData |-> NoMeta]],
                                       [key |-> <<"a">>,
                                        value |-> [type |-> "file", name |-> <<"a">>,
                                                   content |-> Text("B"),
                                                   metaData |-> NoMeta]]>>]]>>]

----------------------------------------------------------------------------
(* C13 (getItem on a missing leaf) *)

\* C13: getItem(p) on a path whose parent folder resolves returns the child
\* of the final name if the parent holds one and null if it holds none; it
\* fails with FolderNotFound when a folder on the way to the parent is
\* missing or is a file.
C13_GetItemNullOnMissingLeaf ==
  (Returned /\ call.op = "getItem" /\ Parts(call.path) # <<>>) =>
    IF IsFolderAt(pre, ParentParts(call.path))
    THEN ret = [ok |-> TRUE,
                item |-> IF Reaches(pre, Parts(call.path))
                         THEN ItemAt(pre, Parts(call.path))
                         ELSE Null]
    ELSE ~ret.ok /\ ret.error.error = "FolderNotFound"

----------------------------------------------------------------------------
(* C14 (exists never raises) *)

\* A value of the type VirtualItem.
IsItem(v) == v.type \in {"file", "folder"}

\* C14: exists(p) returns for every path string, and never throws: true
\* exactly when getItem(p) returns an item, false when getItem(p) returns
\* null or fails (a missing folder on the way, a file on the way, a path of
\* no segment).
C14_ExistsNeverRaises ==
  (Returned /\ call.op = "exists") =>
    /\ ret.ok
    /\ Bind(getItem(pre, call.path), LAMBDA g :
           ret.bool = (g.ok /\ IsItem(g.item)))

----------------------------------------------------------------------------
(* C15 (outcomes of createOrUpdateFile) *)

\* C15: createOrUpdateFile(p, content, metaData) gives what updateFile gives
\* if that succeeds and what createFile gives otherwise: on an existing file
\* it succeeds and readFile(p) is the content; on an absent p whose parent
\* exists it creates a file of that content; on a folder it fails with the
\* AlreadyExists of createFile; with a parent chain that does not resolve it
\* fails with FolderNotFound.
C15_CreateOrUpdateOutcomes ==
  (Returned /\ call.op = "createOrUpdateFile" /\ Parts(call.path) # <<>>) =>
    IF ~ParentResolves(pre, call.path)
    THEN ~ret.ok /\ ret.error.error = "FolderNotFound" /\ recv = pre
    ELSE IF IsFolderAt(pre, Parts(call.path))
    THEN ret = Throw(AlreadyExists(LastName(call.path), call.path)) /\ recv = pre
    ELSE /\ ret.ok
         /\ readFile(ret.fs, call.path) = [ok |-> TRUE, text |-> call.content]
         /\ ~IsFileAt(pre, Parts(call.path)) =>
              ItemAt(ret.fs, Parts(call.path)) =
                createVirtualFile(LastName(call.path), call.content, call.meta.value)

----------------------------------------------------------------------------
(* C16 (delete removes the subtree) *)

IsPrefix(s, t) == Len(s) <= Len(t) /\ SubSeq(t, 1, Len(s)) = s

\* q names p or a path below p; q names a folder above p.
Within(q, p) == IsPrefix(Parts(p), Parts(q))
Above(q, p) == IsPrefix(Parts(q), Parts(p)) /\ Parts(q) # Parts(p)

SameReads(root1, root2, q) ==
  /\ getItem(root1, q) = getItem(root2, q)
  /\ readFile(root1, q) = readFile(root2, q)
  /\ listItems(root1, q) = listItems(root2, q)

\* delete(p) on a file or on a folder without isSystem succeeds, whatever the
\* folder holds, and nothing is at p or below it afterwards.  The paths q are
\* taken in their plain spelling.
DeleteTakesSubtree ==
  /\ (Returned /\ call.op = "delete" /\ Occupied(pre, call.path)
        /\ ~IsSystem(ItemAt(pre, Parts(call.path)))) => ret.ok
  /\ (Succeeded /\ call.op = "delete") =>
       \A q \in PlainSpelledPaths : Within(q, call.path) => ~exists(ret.fs, q).bool

\* C16 as stated: delete(p) succeeds on every file and on every folder not
\* flagged isSystem, exists is false afterwards at p and below p, and every
\* path outside the subtree of p reads as before (getItem, readFile, listItems).
C16_OutsideSubtreeReadsAsBefore ==
  /\ DeleteTakesSubtree
  /\ (Succeeded /\ call.op = "delete") =>
       \A q \in PlainSpelledPaths : ~Within(q, call.path) => SameReads(ret.fs, pre, q)

\* C16 as amended: the paths that read as before are those neither within the
\* subtree of p nor above p; the parent of p lists its children without p,
\* in the order they had.
C16_DeleteRemovesSubtree ==
  /\ DeleteTakesSubtree
  /\ (Succeeded /\ call.op = "delete") =>
       /\ \A q \in PlainSpelledPaths :
            (~Within(q, call.path) /\ ~Above(q, call.path)) => SameReads(ret.fs, pre, q)
       /\ ObjectValues(ItemAt(ret.fs, ParentParts(call.path)).items) =
            SelectSeq(ObjectValues(ItemAt(pre, ParentParts(call.path)).items),
                      LAMBDA it : it.name # LastName(call.path))

C16_Witness ==
  /\ call.op = "delete"
  /\ ret.ok
  /\ IsFolderAt(pre, Parts(call.path))
  /\ IsFileAt(pre, Append(Parts(call.path), <<"1">>))
  /\ IsSystem(ItemAt(pre, Append(Parts(call.path), <<"1">>)))
  /\ ret.fs = EmptyRoot

----------------------------------------------------------------------------
(* C17 (paths of no segment) *)

\* C17: createFile, createFolder, updateFile, readFile, delete and getItem on
\* a path of no segment ("", "/", "//") fail with InvalidPath(path) and
\* change nothing, so the root stays the folder it is; listItems on such a
\* path returns the children of the root.
C17_NoSegmentIsInvalidPath ==
  (Returned /\ Parts(call.path) = <<>>) =>
    /\ call.op \in ParentOps =>
         /\ ret = Throw(InvalidPath(call.path))
         /\ recv = pre
         /\ vfs = pre
    /\ call.op = "listItems" => ret = [ok |-> TRUE, list |-> ObjectValues(pre.items)]

C17_Witness ==
  /\ call.op = "delete"
  /\ call.path = <<Slash, Slash>>
  /\ NodeCount(pre) = 2
  /\ ret = Throw(InvalidPath(<<Slash, Slash>>))
  /\ listItems(vfs, <<Slash, Slash>>) = [ok |-> TRUE, list |-> ObjectValues(pre.items)]

----------------------------------------------------------------------------
(* C18 (the bootstrap items stay system items) *)

BootstrapPaths == {SYSTEM_PATH, PROGRAMS_PATH, USER_PATH, REGISTRY_PATH}

\* C18: whatever the windows write to the store (registry messages, the
\* dispatches of ADD_PROGRAM, REMOVE_PROGRAM and UPDATE_PROGRAM, File > Save),
\* the four items of the default filesystem are in the current snapshot with
\* isSystem true, delete on them fails with SystemProtected, and no other
\* item carries the flag.
C18_BootstrapItemsStaySystem ==
  /\ \A p \in BootstrapPaths :
       /\ Occupied(store.root, p)
       /\ IsSystem(ItemAt(store.root, Parts(p)))
       /\ delete(fileSystemAtomRead(store), p).out = Throw(SystemProtected(p))
  /\ \A e \in Entries(store.root, <<>>) :
       e.at \notin {Parts(p) : p \in BootstrapPaths} => "isSystem" \notin DOMAIN e.metaData

----------------------------------------------------------------------------
(* C19 (the metaData argument of updateFile) *)

\* C19 as stated: updateFile with a metaData argument merges it into the
\* metaData of the file: every key of the old metaData that the argument
\* does not mention keeps its value in the returned snapshot.
C19_MetaDataMerged ==
  (Succeeded /\ call.op = "updateFile" /\ call.meta.given) =>
    \A k \in DOMAIN ItemAt(pre, Parts(call.path)).metaData \ DOMAIN call.meta.value :
      /\ k \in DOMAIN ItemAt(ret.fs, Parts(call.path)).metaData
      /\ ItemAt(ret.fs, Parts(call.path)).metaData[k] =
           ItemAt(pre, Parts(call.path)).metaData[k]

\* C19 as amended: updateFile with a metaData argument replaces the metaData
\* of the file by the argument, so a key the argument does not mention is
\* no longer there; the name and the type of the file stay.
C19_MetaDataReplaced ==
  (Succeeded /\ call.op = "updateFile" /\ call.meta.given) =>
    ItemAt(ret.fs, Parts(call.path)) =
      createVirtualFile(ItemAt(pre, Parts(call.path)).name, call.content, call.meta.value)

C19_Witness ==
  /\ call.op = "updateFile"
  /\ ret.ok
  /\ call.meta = Given(NoMeta)
  /\ IsSystem(ItemAt(pre, Parts(call.path)))
  /\ ~IsSystem(ItemAt(ret.fs, Parts(call.path)))
  /\ delete(ret.fs, call.path).out.ok

----------------------------------------------------------------------------
(* C20 (the default filesystem) *)

\* The items of the default filesystem as the claim lists them, the root with
\* them.
DefaultEntries ==
  {[at |-> <<>>, type |-> "folder", metaData |-> NoMeta,
    names |-> << <<"system">>, <<"user">> >>],
   [at |-> << <<"system">> >>, type |-> "folder", metaData |-> SystemMeta,
    names |-> << <<"programs">>, <<"registry.reg">> >>],
   [at |-> << <<"system">>, <<"programs">> >>, type |-> "folder", metaData |-> SystemMeta,
    names |-> <<>>],
   [at |-> << <<"user">> >>, type |-> "folder", metaData |-> SystemMeta, names |-> <<>>],
   [at |-> << <<"system">>, <<"registry.reg">> >>, type |-> "file", metaData |-> SystemMeta,
    content |-> <<"{", "}">>]}

\* C20: the filesystem the store starts from holds the folders /system,
\* /system/programs and /user and the file /system/registry.reg of content
\* "{}", each with isSystem true, and nothing else; it is what three
\* createFolder calls and one createFile call give from the empty
\* filesystem, each of them succeeding.
C20_DefaultFileSystem ==
  wrote.by = "none" =>
    /\ store.root = toJSON(DEFAULT_FILE_SYSTEM)
    /\ Entries(store.root, <<>>) = DefaultEntries
    /\ \A p \in BootstrapPaths : IsSystem(ItemAt(store.root, Parts(p)))
    /\ Bind(createFolder(EmptyRoot, SYSTEM_PATH, SystemMeta).out, LAMBDA s1 :
         /\ s1.ok
         /\ Bind(createFolder(s1.fs, PROGRAMS_PATH, SystemMeta).out, LAMBDA s2 :
              /\ s2.ok
              /\ Bind(createFolder(s2.fs, USER_PATH, SystemMeta).out, LAMBDA s3 :
                   /\ s3.ok
                   /\ Bind(createFile(s3.fs, REGISTRY_PATH, <<"{", "}">>, SystemMeta).out,
                           LAMBDA s4 : s4.ok /\ s4.fs = fileSystemAtomRead(store)))))

C20_Witness ==
  /\ wrote.by = "none"
  /\ readFile(fileSystemAtomRead(store), REGISTRY_PATH) = [ok |-> TRUE, text |-> <<"{", "}">>]
  /\ listItems(fileSystemAtomRead(store), USER_PATH) = [ok |-> TRUE, list |-> <<>>]
  /\ delete(fileSystemAtomRead(store), PROGRAMS_PATH).out = Throw(SystemProtected(PROGRAMS_PATH))

----------------------------------------------------------------------------
(* C21 (the registry is a projection of one file) *)

\* The values an object holds under a key: one or none.
ValuesAt(obj, key) == {obj[i].value : i \in {j \in 1..Len(obj) : obj[j].key = key}}

RegistryEntryOf(root) ==
  [at |-> Parts(REGISTRY_PATH), type |-> "file",
   content |-> ItemAt(root, Parts(REGISTRY_PATH)).content,
   metaData |-> ItemAt(root, Parts(REGISTRY_PATH)).metaData]

\* C21: after a registry message "set" or "delete" for key k is handled,
\* the registry read back is the object that was written (a property whose
\* value is undefined is not in it); the file /system/registry.reg has the
\* metaData it had and every other item of the filesystem is as it was;
\* every key other than k has the value it had; a set key has the value
\* set, and a deleted key is not among the keys listKeys returns.
C21_RegistryProjection ==
  (wrote.by = "registry" /\ wrote.ok) =>
    Bind(registryAtomRead(wrote.before).value, LAMBDA before :
      Bind(registryAtomRead(store), LAMBDA after :
        /\ after.ok
        /\ after.value = SelectSeq(SpreadOne(before, wrote.arg), LAMBDA pr : pr.defined)
        /\ RegistryEntryOf(store.root).metaData = RegistryEntryOf(wrote.before.root).metaData
        /\ Entries(store.root, <<>>) \ {RegistryEntryOf(store.root)} =
             Entries(wrote.before.root, <<>>) \ {RegistryEntryOf(wrote.before.root)}
        /\ \A pr \in RegistryProps :
             pr.key # wrote.arg.key => ValuesAt(after.value, pr.key) = ValuesAt(before, pr.key)
        /\ ValuesAt(after.value, wrote.arg.key) =
             (IF wrote.arg.defined THEN {wrote.arg.value} ELSE {})
        /\ registryListKeys(store).ok
        /\ ~wrote.arg.defined =>
             \A i \in 1..Len(registryListKeys(store).list) :
               registryListKeys(store).list[i] # wrote.arg.key))

C21_Witness ==
  /\ wrote.by = "registry"
  /\ wrote.ok
  /\ wrote.arg = UndefinedProp("k")
  /\ registryListKeys(wrote.before) = [ok |-> TRUE, list |-> <<"k", "j">>]
  /\ registryListKeys(store) = [ok |-> TRUE, list |-> <<"j">>]

----------------------------------------------------------------------------
(* C22 (ADD_PROGRAM is all or nothing) *)

\* The three entries of a program as ADD_PROGRAM creates it.
NewProgramEntries(action) ==
  {[at |-> Parts(ProgramPath(action.id)), type |-> "folder", metaData |-> NoMeta,
    names |-> << <<"main.exe">>, <<"index.html">> >>],
   [at |-> Append(Parts(ProgramPath(action.id)), <<"main.exe">>), type |-> "file",
    metaData |-> NoMeta, content |-> JSONstringify(<<Prop("prompt", action.prompt)>>)],
   [at |-> Append(Parts(ProgramPath(action.id)), <<"index.html">>), type |-> "file",
    metaData |-> NoMeta, content |-> EmptyText]}

\* C22: after a dispatch of ADD_PROGRAM the current snapshot either holds the
\* new program folder with both main.exe and index.html, or is the snapshot
\* there was before the dispatch (as when a program of that id exists); no
\* published snapshot holds the program folder without both files.
C22_AddProgramAllOrNothing ==
  wrote.by = "ADD_PROGRAM" =>
    IF wrote.ok
    THEN /\ NewProgramEntries(wrote.arg) \subseteq Entries(store.root, <<>>)
         /\ NewProgramEntries(wrote.arg) \cap Entries(wrote.before.root, <<>>) = {}
         /\ IsFileAt(store.root, Append(Parts(ProgramPath(wrote.arg.id)), <<"main.exe">>))
         /\ IsFileAt(store.root, Append(Parts(ProgramPath(wrote.arg.id)), <<"index.html">>))
         /\ persisted = [present |-> TRUE, root |-> store.root]
    ELSE /\ store = wrote.before
         /\ persisted = wrote.persistedBefore

C22_Witness ==
  /\ wrote.by = "ADD_PROGRAM"
  /\ ~wrote.ok
  /\ wrote.result.error.error = "AlreadyExists"
  /\ wrote.arg.id = <<"p">>
  /\ IsFileAt(store.root, Append(Parts(ProgramPath(<<"p">>)), <<"main.exe">>))
  /\ IsFileAt(store.root, Append(Parts(ProgramPath(<<"p">>)), <<"index.html">>))

----------------------------------------------------------------------------
(* C23 (the listing of programs) *)

ProgramsFolder(private) == ItemAt(private.root, Parts(PROGRAMS_PATH))

\* The names of the children of the programs folder that are folders holding
\* a file main.exe, in listing order.
ProgramFolderNames(private) ==
  SelectSeq(ChildNames(ProgramsFolder(private)), LAMBDA name :
    /\ IsFolderAt(ProgramsFolder(private), <<name>>)
    /\ IsFileAt(ProgramsFolder(private), <<name, <<"main.exe">> >>))

\* C23: the listing of programs never fails and holds one entry for every
\* child of the programs folder that is a folder with a file main.exe, its
\* id and name the folder's name and its code the content of index.html
\* (null without index.html); every other child is left out.
C23_ProgramListing ==
  Bind(programsAtomRead(store), LAMBDA listing :
    /\ listing.ok
    /\ [i \in 1..Len(listing.programs) |-> listing.programs[i].id] = ProgramFolderNames(store)
    /\ \A i \in 1..Len(listing.programs) :
         LET entry == listing.programs[i]
         IN /\ entry.name = entry.id
            /\ entry.code =
                 IF IsFileAt(ProgramsFolder(store), <<entry.id, <<"index.html">> >>)
                 THEN [type |-> "string",
                       text |-> ItemAt(ProgramsFolder(store), <<entry.id, <<"index.html">> >>).content]
                 ELSE Null)

----------------------------------------------------------------------------
(* C24 (the persisted root and the store) *)

\* The snapshot a write hands to fileSystemAtom, computed from the snapshot
\* of before the write.
NewState(w) ==
  LET fs == fileSystemAtomRead(w.before)
  IN CASE w.by \in {"ADD_PROGRAM", "REMOVE_PROGRAM"} -> programsReducer(fs, w.arg)
       [] w.by = "UPDATE_PROGRAM" ->
            programsReducer(fs, UpdateProgram(w.arg.id, w.arg.code,
                                  IF w.arg.code.given THEN <<>> ELSE <<Prop("icon", "i")>>))
       [] w.by = "save" -> createOrUpdateFile(fs, w.arg.path, w.arg.content, NoMeta).out
       [] w.by = "registry" ->
            Bind(registryAtomRead(w.before), LAMBDA registry :
              IF ~registry.ok THEN registry
              ELSE updateFile(fs, REGISTRY_PATH,
                              JSONstringify(SpreadOne(registry.value, w.arg)), Omitted).out)

\* The paths the windows of the desktop read and write.
StorePaths ==
  {<<>>, SYSTEM_PATH, PROGRAMS_PATH, REGISTRY_PATH, USER_PATH, ProgramPath(<<"p">>),
   FileIn(ProgramPath(<<"p">>), "main.exe"), FileIn(ProgramPath(<<"p">>), "index.html"),
   FileIn(USER_PATH, "f"), FileIn(USER_PATH, "g")}

\* C24: after every accepted write to the store the value kept under the key
\* "filesystem" has as root the toJSON() of the new snapshot, and the
\* filesystem read from the store (rebuilt from that root, also after the
\* page is loaded again) reads at every path as the snapshot that was
\* written; with nothing kept the store holds the default filesystem.
C24_PersistedRootIsSnapshot ==
  /\ ~persisted.present => store = [root |-> toJSON(DEFAULT_FILE_SYSTEM)]
  /\ persisted.present => fileSystemAtomRead(store) = fileSystemAtomRead([root |-> persisted.root])
  /\ (wrote.by \notin {"none", "reload"} /\ wrote.ok) =>
       Bind(NewState(wrote), LAMBDA newState :
         /\ newState.ok
         /\ persisted = [present |-> TRUE, root |-> toJSON(newState.fs)]
         /\ \A q \in StorePaths : SameReads(fileSystemAtomRead(store), newState.fs, q))

C24_Witness ==
  /\ wrote.by = "reload"
  /\ persisted.present
  /\ store.root = persisted.root
  /\ readFile(fileSystemAtomRead(store), FileIn(USER_PATH, "f")) = [ok |-> TRUE, text |-> Text("A")]
  /\ exists(fileSystemAtomRead(store), ProgramPath(<<"p">>)) = [ok |-> TRUE, bool |-> TRUE]

----------------------------------------------------------------------------
(* C25 (writes are applied to the current snapshot, in delivery order) *)

\* The writes applied one after the other, each to the outcome of the one
\* before it; a write that throws leaves the snapshot.
RECURSIVE Replay(_, _)
Replay(private, writes) ==
  IF writes = <<>> THEN private
  ELSE Bind(NewState([before |-> private, by |-> Head(writes).by, arg |-> Head(writes).arg]),
            LAMBDA newState :
              Replay(IF newState.ok THEN [root |-> toJSON(newState.fs)] ELSE private,
                     Tail(writes)))

RECURSIVE Outcomes(_, _)
Outcomes(private, writes) ==
  IF writes = <<>> THEN <<>>
  ELSE Bind(NewState([before |-> private, by |-> Head(writes).by, arg |-> Head(writes).arg]),
            LAMBDA newState :
              <<newState.ok>> \o
              Outcomes(IF newState.ok THEN [root |-> toJSON(newState.fs)] ELSE private,
                       Tail(writes)))

\* C25: the store holds one current snapshot and every write is computed
\* against it: whatever the order in which iframes, windows and the desktop
\* deliver their writes, the snapshot is the one that the writes give when
\* applied one after the other in delivery order from the default
\* filesystem, each succeeding or failing as it does in that sequence; no
\* successful write is lost.
C25_WritesApplyInDeliveryOrder ==
  /\ store = Replay([root |-> toJSON(DEFAULT_FILE_SYSTEM)], delivered)
  /\ [i \in 1..Len(delivered) |-> delivered[i].ok] =
       Outcomes([root |-> toJSON(DEFAULT_FILE_SYSTEM)], delivered)
  /\ delivered # <<>> =>
       /\ wrote.by = delivered[Len(delivered)].by
       /\ wrote.before =
            Replay([root |-> toJSON(DEFAULT_FILE_SYSTEM)], SubSeq(delivered, 1, Len(delivered) - 1))

C25_Witness ==
  /\ Len(delivered) = 3
  /\ \A i \in 1..3 : delivered[i].ok
  /\ delivered[1] = [by |-> "registry", arg |-> Prop("k", "x"), ok |-> TRUE]
  /\ delivered[2].by = "ADD_PROGRAM"
  /\ delivered[3] = [by |-> "registry", arg |-> Prop("j", "x"), ok |-> TRUE]
  /\ registryListKeys(store) = [ok |-> TRUE, list |-> <<"k", "j">>]
  /\ IsFolderAt(store.root, Parts(ProgramPath(<<"p">>)))

----------------------------------------------------------------------------
(* C26 (a name that was not created is absent) *)

\* C26: for a folder f and a name n that f does not hold (never created in
\* it, or deleted since), also when n is the name of a built-in property of
\* JavaScript objects such as "constructor": getItem(f/n) returns null,
\* exists(f/n) is false, and createFile(f/n) and createFolder(f/n) succeed
\* and put the item there.
C26_AbsentNameIsAbsent ==
  (Returned /\ ParentResolves(pre, call.path) /\ ~Occupied(pre, call.path)) =>
    /\ call.op = "getItem" => ret = [ok |-> TRUE, item |-> Null]
    /\ call.op = "exists" => ret = [ok |-> TRUE, bool |-> FALSE]
    /\ call.op = "createFile" => ret.ok /\ IsFileAt(ret.fs, Parts(call.path))
    /\ call.op = "createFolder" => ret.ok /\ IsFolderAt(ret.fs, Parts(call.path))

----------------------------------------------------------------------------
(* C28 (an UPDATE_PROGRAM delivered after the removal) *)

LastDelivered == delivered[Len(delivered)]

\* The last delivery is an UPDATE_PROGRAM for a program that was removed
\* before it and not added again since.
LateUpdate ==
  /\ Len(delivered) >= 2
  /\ LastDelivered.by = "UPDATE_PROGRAM"
  /\ \E i \in 1..(Len(delivered) - 1) :
       /\ delivered[i] =
            [by |-> "REMOVE_PROGRAM", arg |-> RemoveProgram(LastDelivered.arg.id), ok |-> TRUE]
       /\ \A j \in (i + 1)..(Len(delivered) - 1) :
            ~(delivered[j].by = "ADD_PROGRAM" /\ delivered[j].ok)

\* C28: an UPDATE_PROGRAM delivered after its program was removed (by the
\* icon fetch or the load of a window still open) creates neither the
\* program folder nor any file of it: the filesystem after the dispatch is
\* the filesystem before it.
C28_LateUpdateChangesNothing ==
  LateUpdate =>
    /\ store = wrote.before
    /\ persisted = wrote.persistedBefore
    /\ ~Reaches(store.root, Parts(ProgramPath(LastDelivered.arg.id)))
    /\ \A q \in StorePaths :
         SameReads(fileSystemAtomRead(store), fileSystemAtomRead(wrote.before), q)

C28_Witness ==
  /\ LateUpdate
  /\ Len(delivered) = 3
  /\ delivered[1] = [by |-> "ADD_PROGRAM", arg |-> AddProgram(<<"p">>, "x"), ok |-> TRUE]
  /\ LastDelivered.arg.code = Given(Prop("code", "A"))
  /\ ~LastDelivered.ok

----------------------------------------------------------------------------
(* C27 (an iframe window has its program) *)

\* C27: every window of type iframe in the windows list refers to a program
\* that the programs folder holds: programAtomFamily gives an entry for its
\* programID, so that the Iframe component's "Program not found" assertion
\* holds.
C27_IframeWindowHasProgram ==
  \A i \in 1..Len(windowsList) :
    windowStates[windowsList[i]].program.type = "iframe" =>
      Bind(programAtomFamily(store, windowStates[windowsList[i]].program.programID),
           LAMBDA found : found.ok /\ found.program # Undefined)

----------------------------------------------------------------------------
(* C29 (one Save dialog for a click on Save) *)

\* The Save dialogs in the windows list.
SaveDialogs ==
  {id \in 1..Len(windowStates) : windowStates[id].program.type = "explorer"}

\* C29: a click on Save leads to at most one Save dialog: one "save" request
\* goes to the iframe, at most one "saveComplete" comes back, and the
\* listener of the click is gone once it has handled the answer, so that,
\* also when the save callback returns an empty string, no listener of an
\* earlier click is registered when the answer to a later click arrives,
\* and every Save dialog was opened by the listener of the click that the
\* answer belongs to (so an answer opens one dialog and a click has one).
C29_OneDialogPerSave ==
  /\ \A i \in 1..Len(toHost), j \in 1..Len(listeners) :
       listeners[j].click >= toHost[i].click
  /\ \A id \in SaveDialogs :
       windowStates[id].program.click = windowStates[id].program.answer
  /\ \A id1, id2 \in SaveDialogs :
       windowStates[id1].program.answer = windowStates[id2].program.answer => id1 = id2

----------------------------------------------------------------------------
(* C30 (a submission of the Run form) *)

\* The form of window id was submitted and its handler has come to its
\* end, by returning or by an exception.
HandlerEnded(id) == runForms[id].isLoading /\ ~runForms[id].awaiting

\* A step in which a handler does its work adds the program, opens its
\* window and removes the Run window, in one run of the handler; a step of
\* a form whose handler has ended changes nothing of the form, whoever
\* submits it again.
SubmissionStep ==
  \A id \in 1..Len(runForms) :
    /\ (runForms[id].did = <<>> /\ runForms'[id].did # <<>>) =>
         /\ runForms'[id].did = <<"ADD_PROGRAM", "createWindow", "REMOVE">>
         /\ wrote'.by = "ADD_PROGRAM" /\ wrote'.ok
         /\ wrote'.arg.id = runForms'[id].name
         /\ wrote'.before = store
         /\ Reaches(store'.root, Parts(ProgramPath(runForms'[id].name)))
         /\ Len(windowStates') = Len(windowStates) + 1
         /\ windowStates'[Len(windowStates')].program =
              [type |-> "iframe", programID |-> runForms'[id].name]
         /\ Lists(windowsList', Len(windowStates'))
         /\ ~Lists(windowsList', id)
    /\ HandlerEnded(id) => runForms'[id] = runForms[id]

\* C30: a submission of the Run form adds the program, then opens an iframe
\* window for it, then removes the Run window; while a submission is in
\* progress further submissions of the form are ignored; and every
\* submission ends with the Run window closed and the window of the new
\* program opened, also when a program of that name exists: a handler that
\* has ended has done all three and its Run window is closed.
C30_RunSubmission ==
  /\ [][SubmissionStep]_vars
  /\ [](\A id \in 1..Len(runForms) :
          HandlerEnded(id) =>
            /\ runForms[id].did = <<"ADD_PROGRAM", "createWindow", "REMOVE">>
            /\ ~IsOpen(id))

----------------------------------------------------------------------------
(* C31 (a promise of the iframe API resolves with the response to its request) *)

\* C31: the promises that wait in one document have ids that differ, every
\* response is posted by the handler of the window whose iframe sent the
\* request, and a promise that is resolved has the value of the response to
\* its own request.
C31_PromiseGetsItsResponse ==
  /\ \A i, j \in 1..Len(promises) :
       (promises[i].window = promises[j].window /\ promises[i].id = promises[j].id) => i = j
  /\ \A i \in 1..Len(responses) : responses[i].handler = responses[i].window
  /\ \A i \in 1..Len(promises) :
       promises[i].settled => promises[i].answers = promises[i].req

----------------------------------------------------------------------------
(* C32 (UPDATE_PROGRAM merges the payload into the program) *)

\* The program of this id is in the listing of programs.
ProgramExists(private, id) ==
  Bind(programAtomFamily(private, id), LAMBDA found : found.ok /\ found.program # Undefined)

MainOf(root, id) == ItemAt(root, Append(Parts(ProgramPath(id)), <<"main.exe">>))
IndexOf(root, id) == ItemAt(root, Append(Parts(ProgramPath(id)), <<"index.html">>))

\* The entries of a tree other than the two files of the program.
EntriesBeside(root, id) ==
  {entry \in Entries(root, <<>>) :
     entry.at \notin {Append(Parts(ProgramPath(id)), <<"main.exe">>),
                      Append(Parts(ProgramPath(id)), <<"index.html">>)}}

ConfigKeys == {"prompt", "icon", "code", "id", "name"}

\* The value the payload's fields give to a key of the config, if any.
FieldValues(fields, key) ==
  {fields[i].value : i \in {j \in 1..Len(fields) : fields[j].key = key /\ fields[j].defined}}

----------------------------------------------------------------------------
(* C33 (the focused window is a window of the list) *)

\* C33: the focused window id is null or the id of a window of the windows
\* list; closing the focused window does not leave the focus on it.
C33_FocusIsListedWindow == focusedWindow = NoWindow \/ IsOpen(focusedWindow)

----------------------------------------------------------------------------
(* C34 (the windows list and createWindow) *)

\* The positions of `list` that do not hold `id`.
KeptPositions(list, id) == {i \in 1..Len(list) : list[i] # id}

\* `new` is `list` without every occurrence of `id`, the others in their order.
IsListWithout(new, list, id) ==
  /\ Len(new) = Cardinality(KeptPositions(list, id))
  /\ \A i \in KeptPositions(list, id) :
       new[Cardinality({j \in KeptPositions(list, id) : j <= i})] = list[i]

\* Lists of ids, with and without repeated ids.
SomeLists == UNION {[1..n -> 1..2] : n \in 0..3}

\* The states createWindow's callers initialise a window with.
IsInitialised(state) ==
  /\ state.status = "normal"
  /\ state.pos = [x |-> 200, y |-> 200]
  /\ \/ state.size = [width |-> 300, height |-> Auto] /\ ~state.loading
     \/ state.size = [width |-> 400, height |-> Px(400)] /\ state.loading
  /\ state.program.type \in {"run", "iframe"}

\* The reducer on lists of ids, repeated ids included.
ReducerOnLists ==
  \A list \in SomeLists, id \in 1..3 :
    /\ windowsListReducer(list, [type |-> "ADD", payload |-> id]) = list \o <<id>>
    /\ IsListWithout(windowsListReducer(list, [type |-> "REMOVE", payload |-> id]),
                     list, id)

CreateWindowStep ==
  /\ windowsList' # windowsList => ReducerOnLists
  /\ \/ windowsList' = windowsList
     \/ \E id \in 1..Len(windowStates) : IsListWithout(windowsList', windowsList, id)
     \/ Len(windowStates') > Len(windowStates)
  /\ Len(windowStates') >= Len(windowStates)
  /\ \A id \in 1..Len(windowStates) :
       \/ windowStates'[id] = windowStates[id]
       \/ /\ Len(windowStates') = Len(windowStates)
          /\ windowStates'[id].status # windowStates[id].status
  /\ Len(windowStates') > Len(windowStates) =>
       /\ Len(windowStates') = Len(windowStates) + 1
       /\ IsInitialised(windowStates'[Len(windowStates')])
       /\ windowsList' # <<>>
       /\ windowsList'[Len(windowsList')] = Len(windowStates')
       /\ \/ SubSeq(windowsList', 1, Len(windowsList') - 1) = windowsList
          \/ \E id \in 1..Len(windowStates) :
               /\ windowStates[id].program.type = "run"
               /\ IsListWithout(SubSeq(windowsList', 1, Len(windowsList') - 1),
                                windowsList, id)
       /\ focusedWindow' = Len(windowStates')

\* C34: the list's reducer appends the id on ADD and takes every occurrence of
\* the id out on REMOVE, the other ids keeping their order; a createWindow
\* call initialises the state of a new window, leaves the other windows'
\* states alone, puts the new id last in the list and focuses the new window.
C34_ListAndCreateWindow == [][CreateWindowStep]_vars

\* A window was closed, and the window created after it is the last of the
\* list and the focused one.
C34_Witness ==
  /\ Len(windowsList) < Len(windowStates)
  /\ Len(windowsList) >= 2
  /\ windowsList[Len(windowsList)] = Len(windowStates)
  /\ focusedWindow = Len(windowStates)
  /\ IsInitialised(windowStates[Len(windowStates)])

----------------------------------------------------------------------------
(* C35 (the minimum size of a window) *)

\* C35: every window, as the desktop creates it and after every RESIZE from
\* any side by any delta, is at least 300 wide, and its height is "auto" or
\* at least 100.
C35_SizeAtLeastMinimum ==
  \A id \in 1..Len(windowStates) :
    /\ windowStates[id].size.width >= 300
    /\ windowStates[id].size.height.auto \/ windowStates[id].size.height.px >= 100

\* A window created 300 wide with height "auto" was resized to less on both
\* axes and holds the minimum.
C35_Witness ==
  /\ drags > 0
  /\ \E id \in 1..Len(windowStates) :
       /\ windowStates[id].program.type = "run"
       /\ windowStates[id].size = [width |-> 300, height |-> Px(100)]

----------------------------------------------------------------------------
(* C36 (a resize from the left or the top keeps the opposite edge) *)

\* The step is a RESIZE of window `id` from `side`.
IsResizeFrom(id, side) ==
  \E dx \in Deltas, dy \in Deltas :
    windowStates' =
      [windowStates EXCEPT ![id] =
         windowReducer(@, [type |-> "RESIZE",
                           payload |-> [side |-> side, dx |-> dx, dy |-> dy]])]

OppositeEdgeStep ==
  drags' = drags + 1 =>
    \A id \in 1..Len(windowStates) :
      /\ IsResizeFrom(id, "left") =>
           windowStates'[id].pos.x + windowStates'[id].size.width
             = windowStates[id].pos.x + windowStates[id].size.width
      /\ (IsResizeFrom(id, "top") /\ ~windowStates[id].size.height.auto) =>
           windowStates'[id].pos.y + windowStates'[id].size.height.px
             = windowStates[id].pos.y + windowStates[id].size.height.px

\* C36: a RESIZE from the left edge leaves pos.x + size.width as it was, and
\* one from the top edge leaves pos.y + size.height as it was when the height
\* is a number, also when the requested size is below the minimum.
C36_OppositeEdgeFixed == [][OppositeEdgeStep]_vars

----------------------------------------------------------------------------
(* C37 (a key without the public_ prefix belongs to the program that wrote it) *)

\* Key k was written, and by other programs than `program` only.  No key
\* of ApiKeys starts with "public_".
WrittenByOthersOnly(k, program) ==
  /\ \E e \in keyWriters : e.key = k
  /\ \A e \in keyWriters : e.key = k => e.program # program

\* What the registry holds for key k: no value or one.
RegistryValues(private, k) ==
  IF registryAtomRead(private).ok THEN ValuesAt(registryAtomRead(private).value, k) ELSE {}

\* The host handles the message at the head of `requests`.
ScopedStep ==
  (requests # <<>> /\ requests' = Tail(requests)
     /\ windowStates[Head(requests).source].program.type = "iframe") =>
    Bind(Head(requests), LAMBDA message :
      Bind(windowStates[message.source].program.programID, LAMBDA program :
        \A k \in ApiKeys :
          WrittenByOthersOnly(k, program) =>
            /\ RegistryValues(store', k) = RegistryValues(store, k)
            /\ Len(responses') > Len(responses) =>
                 Bind(responses'[Len(responses')].value, LAMBDA value :
                   /\ (message.operation = "get" /\ message.prop.key = k) =>
                        value = Undefined
                   /\ message.operation = "listKeys" =>
                        \A i \in 1..Len(value) : value[i] # k)))

\* C37: a get, set, delete or listKeys that the iframe of one program sends
\* neither returns nor changes a key without the public_ prefix that only
\* other programs wrote.
C37_KeysAreScoped == [][ScopedStep]_vars

----------------------------------------------------------------------------
(* C38 (what the image-to-program route streams) *)

\* The whole of the model's answer.
RECURSIVE Whole(_)
Whole(chunks) == IF chunks = <<>> THEN <<>> ELSE Head(chunks) \o Whole(Tail(chunks))

\* The pieces of `text` after its first opening fence and before the
\* closing fence that follows.
Fenced(text) ==
  LET IsAt(i, fence) == i + Len(fence) - 1 <= Len(text)
                        /\ \A k \in 1..Len(fence) : text[i + k - 1] = fence[k]
      open == CHOOSE i \in 1..Len(text) :
                IsAt(i, OpeningFence) /\ \A j \in 1..(i - 1) : ~IsAt(j, OpeningFence)
      first == open + Len(OpeningFence)
      close == CHOOSE i \in first..Len(text) :
                 IsAt(i, ClosingFence) /\ \A j \in first..(i - 1) : ~IsAt(j, ClosingFence)
  IN [k \in 1..(close - first) |-> text[first + k - 1]]

\* C38: once the response is closed, what was streamed is the text between
\* the first opening fence (three backquotes and html) of the model's answer
\* and the first closing fence (three backquotes) after it,
\* however the answer was cut into chunks.
C38_StreamsFencedText == routeAt = "closed" => body = Fenced(Whole(programStream))

====
